---- MODULE Spec2Model ----
(***************************************************************************)
(* The Temporal Item Store of timemap (src/src/timemap/db.py): the items,  *)
(* tags and item_tags tables, the store operations as actions and the      *)
(* read queries / calendar aggregations as operators.                      *)
(*                                                                         *)
(* Representation.                                                         *)
(*  - A date column holds an ISO string "YYYY-MM-DD"; it is modelled by    *)
(*    the triple <<y, m, d>> of its zero padded fields, so that SQL string *)
(*    comparison is the lexicographic comparison of the triple (StrLE) and *)
(*    `LIKE 'Y-MM-%'` is equality of the first two fields.  SQL NULL in a  *)
(*    date column is NoDate.                                               *)
(*  - deleted_at holds datetime.now().isoformat(); it is modelled by a     *)
(*    positive integer (the wall clock reading), NULL by NoTime.  The wall *)
(*    clock is an input of soft_delete_item: nothing in the code makes it  *)
(*    increase from one call to the next.                                  *)
(*  - A tag name is a sequence of one character strings, so that strip()   *)
(*    is computed and not assumed.                                         *)
(***************************************************************************)
EXTENDS Integers, Sequences, FiniteSets, TLC

VARIABLES
    items,      \* table items:     id -> row
    tags,       \* table tags:      id -> [name, color]
    item_tags,  \* table item_tags: set of <<item_id, tag_id>> (the primary key)
    last,       \* the last call: its name, its return value, whether it
                \* raised, the item rows soft_delete_item purged and the tag
                \* rows _cleanup_orphaned_tags deleted
    calls,      \* the calls in flight, statement by statement: caller -> its
                \* position, its local variables and, once it has written,
                \* the uncommitted tables of its connection
    columns     \* the column names of table items, in the order of the file
                \* (<<>>: the file has no table items)

vars == <<items, tags, item_tags, last, calls, columns>>

NoDate == <<>>
NoTime == 0
None == "None"

\* ------------------------------------------------------------------ bounds

MaxId == 4
MaxTime == 2
MaxCalId == 2
MaxClock == 4

\* soft_delete_item keeps the 3 most recent trashed rows
TrashKeep == 3

\* ------------------------------------------------------------- small helpers

Max(S) == CHOOSE x \in S : \A y \in S : y <= x

\* the ascending sequence of a finite set of integers (rowid scan order)
RECURSIVE Ascending(_)
Ascending(S) ==
    IF S = {} THEN <<>>
    ELSE LET m == Max(S) IN Append(Ascending(S \ {m}), m)

\* SQL comparison of two TEXT dates "YYYY-MM-DD" (memcmp of the strings)
StrLT(a, b) ==
    \/ a[1] < b[1]
    \/ a[1] = b[1] /\ a[2] < b[2]
    \/ a[1] = b[1] /\ a[2] = b[2] /\ a[3] < b[3]

StrLE(a, b) == a = b \/ StrLT(a, b)

\* `date LIKE 'Y-MM-%'`
LikeMonth(d, year, month) == d # NoDate /\ d[1] = year /\ d[2] = month

\* ------------------------------------------------------------------ tables

Trashed(its) == {i \in DOMAIN its : its[i].deleted_at # NoTime}

\* INTEGER PRIMARY KEY without AUTOINCREMENT: the new rowid is max(rowid) + 1
NewRowId(tbl) == IF DOMAIN tbl = {} THEN 1 ELSE Max(DOMAIN tbl) + 1

Extend(tbl, k, row) ==
    [i \in DOMAIN tbl \cup {k} |-> IF i = k THEN row ELSE tbl[i]]

Restrict(tbl, keep) == [i \in DOMAIN tbl \cap keep |-> tbl[i]]

Call(op, rv, raised, purged, gc) ==
    [op |-> op, rv |-> rv, raised |-> raised, purged |-> purged, gc |-> gc]

\* the call record of an operation that returns None and purges nothing
Plain(op) == Call(op, None, FALSE, {}, {})

\* variant: the DELETE of the orphaned tags is left out
cleanup_orphaned_tags_off(tgs, its_tags) == tgs

\* DELETE FROM tags WHERE id NOT IN (SELECT DISTINCT tag_id FROM item_tags)
cleanup_orphaned_tags(tgs, its_tags) ==
    Restrict(tgs, {p[2] : p \in its_tags})

\* SELECT id FROM items WHERE deleted_at IS NOT NULL ORDER BY deleted_at DESC:
\* every order of the trashed ids that is non-increasing in deleted_at (rows
\* with equal deleted_at come in an order SQL leaves open)
RECURSIVE OrdersOf(_, _)
OrdersOf(its, T) ==
    IF T = {} THEN {<<>>}
    ELSE LET top == Max({its[i].deleted_at : i \in T})
         IN UNION {{<<m>> \o s : s \in OrdersOf(its, T \ {m})} :
                      m \in {i \in T : its[i].deleted_at = top}}

TrashOrder(its) == OrdersOf(its, Trashed(its))

\* ------------------------------------------------------------------ schema

\* the columns of CREATE TABLE IF NOT EXISTS items
CreatedColumns ==
    <<"id", "date", "type", "content", "is_done", "finish_date", "alias",
      "mood", "deleted_at">>

\* the columns the migrations of get_db look for, in the order of the code
MigratedColumns == <<"is_done", "finish_date", "alias", "mood", "deleted_at">>

ColumnSet(cols) == {cols[k] : k \in DOMAIN cols}

\* what a row holds in a column added by ALTER TABLE ... ADD COLUMN: the
\* DEFAULT of the column, NULL without one
AddedValue(col) ==
    CASE col = "is_done" -> 0
      [] col = "finish_date" -> NoDate
      [] col = "deleted_at" -> NoTime
      [] OTHER -> None

\* the migrations from the k-th on: `if col not in columns: ALTER TABLE items
\* ADD COLUMN col` (columns is read once, before the first of them)
RECURSIVE add_columns(_, _, _)
add_columns(cols, had, k) ==
    IF k > Len(MigratedColumns) THEN cols
    ELSE add_columns(IF MigratedColumns[k] \in had THEN cols
                     ELSE Append(cols, MigratedColumns[k]),
                     had, k + 1)

\* the columns of items after get_db
opened_columns(cols) ==
    IF cols = <<>> THEN CreatedColumns
    ELSE add_columns(cols, ColumnSet(cols), 1)

\* a row of items after get_db has brought the table from cols to new_cols
opened_row(row, new_cols) ==
    [col \in ColumnSet(new_cols) \ {"id"} |->
        IF col \in DOMAIN row THEN row[col] ELSE AddedValue(col)]

\* variant: a table that lacks a column is dropped and created anew
get_db_recreate ==
    /\ columns' = CreatedColumns
    /\ items' = IF columns = <<>> \/ ColumnSet(columns) = ColumnSet(CreatedColumns)
                THEN items ELSE <<>>
    /\ last' = Plain("get_db")
    /\ UNCHANGED <<tags, item_tags, calls>>

\* get_db on the file as it is: CREATE TABLE IF NOT EXISTS and the migrations
get_db ==
    /\ columns' = opened_columns(columns)
    /\ items' = [i \in DOMAIN items |->
                    opened_row(items[i], opened_columns(columns))]
    /\ last' = Plain("get_db")
    /\ UNCHANGED <<tags, item_tags, calls>>

\* ----------------------------------------------------------------- actions

Init ==
    /\ items = <<>>
    /\ tags = <<>>
    /\ item_tags = {}
    /\ last = Plain("get_db")
    /\ calls = <<>>
    /\ columns = CreatedColumns

\* variant: the INSERT stores the date in finish_date as well
add_item_finished(item_type, content, target_date, alias, mood, today) ==
    LET d == IF target_date = NoDate THEN today ELSE target_date
        row == [date |-> d, type |-> item_type, content |-> content,
                is_done |-> 0, finish_date |-> d, alias |-> alias,
                mood |-> mood, deleted_at |-> NoTime]
    IN /\ items' = Extend(items, NewRowId(items), row)
       /\ last' = Plain("add_item")
       /\ UNCHANGED <<tags, item_tags>>

add_item(item_type, content, target_date, alias, mood, today) ==
    LET d == IF target_date = NoDate THEN today ELSE target_date
        row == [date |-> d, type |-> item_type, content |-> content,
                is_done |-> 0, finish_date |-> NoDate, alias |-> alias,
                mood |-> mood, deleted_at |-> NoTime]
    IN /\ items' = Extend(items, NewRowId(items), row)
       /\ last' = Plain("add_item")
       /\ UNCHANGED <<tags, item_tags>>

\* variant: the revert branch clears is_done and leaves finish_date
toggle_todo_status_keepdate(item_id, action_date) ==
    /\ items' =
         IF item_id \in DOMAIN items
         THEN IF items[item_id].is_done = 0
              THEN [items EXCEPT ![item_id].is_done = 1,
                                 ![item_id].finish_date = action_date]
              ELSE [items EXCEPT ![item_id].is_done = 0]
         ELSE items
    /\ last' = Plain("toggle_todo_status")
    /\ UNCHANGED <<tags, item_tags>>

\* variant: completing a row that is done keeps it done and restamps it
toggle_row_restamp(row, action_date) ==
    [row EXCEPT !.is_done = 1, !.finish_date = action_date]

\* the UPDATE toggle_todo_status runs on the row it has read
toggle_row(row, action_date) ==
    IF row.is_done = 0
    THEN [row EXCEPT !.is_done = 1, !.finish_date = action_date]
    ELSE [row EXCEPT !.is_done = 0, !.finish_date = NoDate]

toggle_todo_status(item_id, action_date) ==
    /\ items' =
         IF item_id \in DOMAIN items
         THEN [items EXCEPT ![item_id] = toggle_row(items[item_id], action_date)]
         ELSE items
    /\ last' = Plain("toggle_todo_status")
    /\ UNCHANGED <<tags, item_tags>>

\* variant: deleted_at is set and the retention purge is left out
soft_delete_item_nopurge(item_id, now) ==
    /\ items' = IF item_id \in DOMAIN items
                THEN [items EXCEPT ![item_id].deleted_at = now]
                ELSE items
    /\ last' = Plain("soft_delete_item")
    /\ UNCHANGED <<tags, item_tags>>

soft_delete_item(item_id, now) ==
    LET upd == IF item_id \in DOMAIN items
               THEN [items EXCEPT ![item_id].deleted_at = now]
               ELSE items
    IN \E deleted_rows \in TrashOrder(upd) :
         IF Len(deleted_rows) > TrashKeep
         THEN LET to_remove == {deleted_rows[k] :
                                   k \in (TrashKeep + 1)..Len(deleted_rows)}
                  its_tags == {p \in item_tags : p[1] \notin to_remove}
                  tgs == cleanup_orphaned_tags(tags, its_tags)
              IN /\ items' = Restrict(upd, DOMAIN upd \ to_remove)
                 /\ item_tags' = its_tags
                 /\ tags' = tgs
                 /\ last' = Call("soft_delete_item", None, FALSE, to_remove,
                                 DOMAIN tags \ DOMAIN tgs)
         ELSE /\ items' = upd
              /\ last' = Plain("soft_delete_item")
              /\ UNCHANGED <<tags, item_tags>>

\* variant: ORDER BY deleted_at ASC, the oldest trashed row is recovered
recover_last_deleted_oldest ==
    \E rows \in TrashOrder(items) :
        IF Len(rows) > 0
        THEN /\ items' = [items EXCEPT ![rows[Len(rows)]].deleted_at = NoTime]
             /\ last' = Call("recover_last_deleted", "True", FALSE, {}, {})
             /\ UNCHANGED <<tags, item_tags>>
        ELSE /\ last' = Call("recover_last_deleted", "False", FALSE, {}, {})
             /\ UNCHANGED <<items, tags, item_tags>>

\* variant: True is returned whether or not a row was found
recover_last_deleted_true ==
    \E rows \in TrashOrder(items) :
        IF Len(rows) > 0
        THEN /\ items' = [items EXCEPT ![rows[1]].deleted_at = NoTime]
             /\ last' = Call("recover_last_deleted", "True", FALSE, {}, {})
             /\ UNCHANGED <<tags, item_tags>>
        ELSE /\ last' = Call("recover_last_deleted", "True", FALSE, {}, {})
             /\ UNCHANGED <<items, tags, item_tags>>

recover_last_deleted ==
    \E rows \in TrashOrder(items) :
        IF Len(rows) > 0
        THEN /\ items' = [items EXCEPT ![rows[1]].deleted_at = NoTime]
             /\ last' = Call("recover_last_deleted", "True", FALSE, {}, {})
             /\ UNCHANGED <<tags, item_tags>>
        ELSE /\ last' = Call("recover_last_deleted", "False", FALSE, {}, {})
             /\ UNCHANGED <<items, tags, item_tags>>

\* variant: the trashed items are deleted and their associations are left
empty_trash_keepassoc ==
    LET tgs == cleanup_orphaned_tags(tags, item_tags)
    IN /\ item_tags' = item_tags
       /\ items' = Restrict(items, DOMAIN items \ Trashed(items))
       /\ tags' = tgs
       /\ last' = Call("empty_trash", None, FALSE, {}, DOMAIN tags \ DOMAIN tgs)

empty_trash ==
    LET its_tags == {p \in item_tags : p[1] \notin Trashed(items)}
        tgs == cleanup_orphaned_tags(tags, its_tags)
    IN /\ item_tags' = its_tags
       /\ items' = Restrict(items, DOMAIN items \ Trashed(items))
       /\ tags' = tgs
       /\ last' = Call("empty_trash", None, FALSE, {}, DOMAIN tags \ DOMAIN tgs)

\* variant: the DELETE FROM item_tags is left out
delete_item_keepassoc(item_id) ==
    LET tgs == cleanup_orphaned_tags(tags, item_tags)
    IN /\ item_tags' = item_tags
       /\ items' = Restrict(items, DOMAIN items \ {item_id})
       /\ tags' = tgs
       /\ last' = Call("delete_item", None, FALSE, {}, DOMAIN tags \ DOMAIN tgs)

delete_item(item_id) ==
    LET its_tags == {p \in item_tags : p[1] # item_id}
        tgs == cleanup_orphaned_tags(tags, its_tags)
    IN /\ item_tags' = its_tags
       /\ items' = Restrict(items, DOMAIN items \ {item_id})
       /\ tags' = tgs
       /\ last' = Call("delete_item", None, FALSE, {}, DOMAIN tags \ DOMAIN tgs)

update_item_content(item_id, new_content) ==
    /\ items' = IF item_id \in DOMAIN items
                THEN [items EXCEPT ![item_id].content = new_content]
                ELSE items
    /\ last' = Plain("update_item_content")
    /\ UNCHANGED <<tags, item_tags>>

\* variant: the UPDATE sets content to the alias as well
update_item_alias_both(item_id, new_alias) ==
    /\ items' = IF item_id \in DOMAIN items
                THEN [items EXCEPT ![item_id].alias = new_alias,
                                   ![item_id].content = new_alias]
                ELSE items
    /\ last' = Plain("update_item_alias")
    /\ UNCHANGED <<tags, item_tags>>

update_item_alias(item_id, new_alias) ==
    /\ items' = IF item_id \in DOMAIN items
                THEN [items EXCEPT ![item_id].alias = new_alias]
                ELSE items
    /\ last' = Plain("update_item_alias")
    /\ UNCHANGED <<tags, item_tags>>

update_diary_item(item_id, title, mood, content) ==
    /\ items' = IF item_id \in DOMAIN items
                THEN [items EXCEPT ![item_id].alias = title,
                                   ![item_id].mood = mood,
                                   ![item_id].content = content]
                ELSE items
    /\ last' = Plain("update_diary_item")
    /\ UNCHANGED <<tags, item_tags>>

\* ---------------------------------------------------------------- tag names

\* the list `colors` of update_item_tags
Palette ==
    {"red", "green", "blue", "magenta", "yellow", "cyan", "#ff5555",
     "#50fa7b", "#f1fa8c", "#bd93f9", "#ff79c6", "#8be9fd"}

IsSpace(ch) == ch = " "

\* str.strip(): drop the leading and the trailing whitespace
RECURSIVE lstrip(_)
lstrip(s) == IF s # <<>> /\ IsSpace(Head(s)) THEN lstrip(Tail(s)) ELSE s

RECURSIVE rstrip(_)
rstrip(s) ==
    IF s # <<>> /\ IsSpace(s[Len(s)]) THEN rstrip(SubSeq(s, 1, Len(s) - 1)) ELSE s

strip(s) == rstrip(lstrip(s))

\* SELECT id FROM tags WHERE name = ?
TagIdsNamed(tgs, name) == {t \in DOMAIN tgs : tgs[t].name = name}

\* The loop of update_item_tags over tags_list[i..], on the working copy
\* st = [tags, item_tags, raised] of the open transaction.  picks[i] is what
\* random.choice(colors) returns for the i-th entry.  An INSERT of a pair that
\* is already in item_tags violates PRIMARY KEY(item_id, tag_id): sqlite3
\* raises IntegrityError and the loop is left.
RECURSIVE tag_loop(_, _, _, _, _)
tag_loop(item_id, tags_list, picks, i, st) ==
    IF i > Len(tags_list) \/ st.raised THEN st
    ELSE LET clean_tag == strip(tags_list[i])
         IN IF clean_tag = <<>>
            THEN tag_loop(item_id, tags_list, picks, i + 1, st)
            ELSE LET found == TagIdsNamed(st.tags, clean_tag)
                     tag_id == IF found # {} THEN CHOOSE t \in found : TRUE
                               ELSE NewRowId(st.tags)
                     tgs == IF found # {} THEN st.tags
                            ELSE Extend(st.tags, tag_id,
                                        [name |-> clean_tag, color |-> picks[i]])
                 IN IF <<item_id, tag_id>> \in st.item_tags
                    THEN [tags |-> tgs, item_tags |-> st.item_tags,
                          raised |-> TRUE]
                    ELSE tag_loop(item_id, tags_list, picks, i + 1,
                                  [tags |-> tgs,
                                   item_tags |-> st.item_tags
                                                  \cup {<<item_id, tag_id>>},
                                   raised |-> FALSE])

\* The tables update_item_tags leaves: the transaction's working copy after
\* the DELETE, the loop and the cleanup, or, when the loop raised before
\* conn.commit(), the tables as they were (the open transaction is rolled
\* back when the connection goes away).
\* variant: the DELETE of the item's associations is left out
tags_rewrite_append(item_id, tags_list, picks) ==
    LET st == tag_loop(item_id, tags_list, picks, 1,
                       [tags |-> tags, item_tags |-> item_tags, raised |-> FALSE])
    IN IF st.raised
       THEN [tags |-> tags, item_tags |-> item_tags, raised |-> TRUE,
             gc |-> {}]
       ELSE LET tgs == cleanup_orphaned_tags(st.tags, st.item_tags)
            IN [tags |-> tgs, item_tags |-> st.item_tags, raised |-> FALSE,
                gc |-> DOMAIN st.tags \ DOMAIN tgs]

\* variant: _cleanup_orphaned_tags runs right after the DELETE as well
tags_rewrite_cleanfirst(item_id, tags_list, picks) ==
    LET cleared == {p \in item_tags : p[1] # item_id}
        st == tag_loop(item_id, tags_list, picks, 1,
                       [tags |-> cleanup_orphaned_tags(tags, cleared),
                        item_tags |-> cleared, raised |-> FALSE])
    IN IF st.raised
       THEN [tags |-> tags, item_tags |-> item_tags, raised |-> TRUE,
             gc |-> {}]
       ELSE LET tgs == cleanup_orphaned_tags(st.tags, st.item_tags)
            IN [tags |-> tgs, item_tags |-> st.item_tags, raised |-> FALSE,
                gc |-> DOMAIN st.tags \ DOMAIN tgs]

tags_rewrite(item_id, tags_list, picks) ==
    LET cleared == {p \in item_tags : p[1] # item_id}
        st == tag_loop(item_id, tags_list, picks, 1,
                       [tags |-> tags, item_tags |-> cleared, raised |-> FALSE])
    IN IF st.raised
       THEN [tags |-> tags, item_tags |-> item_tags, raised |-> TRUE,
             gc |-> {}]
       ELSE LET tgs == cleanup_orphaned_tags(st.tags, st.item_tags)
            IN [tags |-> tgs, item_tags |-> st.item_tags, raised |-> FALSE,
                gc |-> DOMAIN st.tags \ DOMAIN tgs]

update_item_tags(item_id, tags_list, picks) ==
    LET st == tags_rewrite(item_id, tags_list, picks)
    IN /\ tags' = st.tags
       /\ item_tags' = st.item_tags
       /\ last' = Call("update_item_tags", None, st.raised, {}, st.gc)
       /\ UNCHANGED items

\* ------------------------------------------------------- statement by statement
\* The multi-statement operations as their callers run them: one step per SQL
\* statement.  sqlite3 opens a transaction before the first INSERT, UPDATE or
\* DELETE of a connection and holds the database's write lock until
\* conn.commit(); until then the statements change the connection's own view
\* (field w of the call) and the tables on disk stay as they were.  A
\* connection that goes away without commit (the process dies, an exception
\* leaves the function) loses its transaction.

NoTables == [none |-> TRUE]

Store == [items |-> items, tags |-> tags, item_tags |-> item_tags]

\* no other connection holds the write lock
LockFree(c) == \A o \in DOMAIN calls : o # c => calls[o].w = NoTables

\* the tables the next statement of call c works on
View(c) == IF calls[c].w = NoTables THEN Store ELSE calls[c].w

Frame(op, pc, item_id, now, tags_list, picks) ==
    [op |-> op, pc |-> pc, item_id |-> item_id, now |-> now,
     tags_list |-> tags_list, picks |-> picks, k |-> 1, tag_id |-> 0,
     to_remove |-> <<>>, purged |-> {}, gc |-> {}, w |-> NoTables]

Enter(c, frame) ==
    /\ c \notin DOMAIN calls
    /\ calls' = Extend(calls, c, frame)
    /\ UNCHANGED <<items, tags, item_tags, last, columns>>

\* call c goes on with frame f; nothing is committed
Goes(c, f) ==
    /\ calls' = [calls EXCEPT ![c] = f]
    /\ UNCHANGED <<items, tags, item_tags, last, columns>>

At(c, op, pc) ==
    /\ c \in DOMAIN calls
    /\ calls[c].op = op
    /\ calls[c].pc = pc

\* the first entry of tags_list from position k on that is not blank (the
\* loop's `continue`), or Len + 1
RECURSIVE next_entry(_, _)
next_entry(tags_list, k) ==
    IF k > Len(tags_list) THEN k
    ELSE IF strip(tags_list[k]) = <<>> THEN next_entry(tags_list, k + 1)
    ELSE k

\* soft_delete_item(item_id) is called; now = datetime.now().isoformat()
soft_delete_item_call(c, item_id, now) ==
    Enter(c, Frame("soft_delete_item", "update", item_id, now, <<>>, <<>>))

\* variant: the connection is in autocommit mode, the UPDATE is on disk at once
soft_delete_item_update_autocommit(c) ==
    /\ At(c, "soft_delete_item", "update")
    /\ LockFree(c)
    /\ LET f == calls[c]
           upd == IF f.item_id \in DOMAIN items
                  THEN [items EXCEPT ![f.item_id].deleted_at = f.now]
                  ELSE items
       IN /\ items' = upd
          /\ calls' = [calls EXCEPT ![c] =
                         [f EXCEPT !.pc = "select",
                                   !.w = [Store EXCEPT !.items = upd]]]
          /\ UNCHANGED <<tags, item_tags, last, columns>>

\* UPDATE items SET deleted_at = ? WHERE id = ?
soft_delete_item_update(c) ==
    /\ At(c, "soft_delete_item", "update")
    /\ LockFree(c)
    /\ LET f == calls[c]
           v == View(c)
           upd == IF f.item_id \in DOMAIN v.items
                  THEN [v.items EXCEPT ![f.item_id].deleted_at = f.now]
                  ELSE v.items
       IN Goes(c, [f EXCEPT !.pc = "select", !.w = [v EXCEPT !.items = upd]])

\* SELECT id ... ORDER BY deleted_at DESC; to_remove = deleted_rows[3:]
soft_delete_item_select(c) ==
    /\ At(c, "soft_delete_item", "select")
    /\ LET f == calls[c]
       IN \E deleted_rows \in TrashOrder(f.w.items) :
             IF Len(deleted_rows) > TrashKeep
             THEN Goes(c, [f EXCEPT !.pc = "delete_item_tags",
                                    !.to_remove =
                                        SubSeq(deleted_rows, TrashKeep + 1,
                                               Len(deleted_rows))])
             ELSE Goes(c, [f EXCEPT !.pc = "commit"])

\* DELETE FROM item_tags WHERE item_id = ? (the loop over to_remove)
soft_delete_item_delete_item_tags(c) ==
    /\ At(c, "soft_delete_item", "delete_item_tags")
    /\ LET f == calls[c]
           row == Head(f.to_remove)
       IN Goes(c, [f EXCEPT !.pc = "delete_items",
                            !.w.item_tags = {p \in @ : p[1] # row}])

\* DELETE FROM items WHERE id = ? (the loop over to_remove)
soft_delete_item_delete_items(c) ==
    /\ At(c, "soft_delete_item", "delete_items")
    /\ LET f == calls[c]
           row == Head(f.to_remove)
       IN Goes(c, [f EXCEPT !.pc = IF Tail(f.to_remove) = <<>> THEN "cleanup"
                                   ELSE "delete_item_tags",
                            !.to_remove = Tail(@),
                            !.purged = @ \cup {row},
                            !.w.items = Restrict(@, DOMAIN @ \ {row})])

delete_item_call(c, item_id) ==
    Enter(c, Frame("delete_item", "delete_item_tags", item_id, NoTime,
                   <<>>, <<>>))

\* DELETE FROM item_tags WHERE item_id = ?
delete_item_delete_item_tags(c) ==
    /\ At(c, "delete_item", "delete_item_tags")
    /\ LockFree(c)
    /\ LET f == calls[c]
           v == View(c)
       IN Goes(c, [f EXCEPT !.pc = "delete_items",
                            !.w = [v EXCEPT !.item_tags =
                                      {p \in @ : p[1] # f.item_id}]])

\* DELETE FROM items WHERE id = ?
delete_item_delete_items(c) ==
    /\ At(c, "delete_item", "delete_items")
    /\ LET f == calls[c]
       IN Goes(c, [f EXCEPT !.pc = "cleanup",
                            !.w.items = Restrict(@, DOMAIN @ \ {f.item_id})])

empty_trash_call(c) ==
    Enter(c, Frame("empty_trash", "delete_item_tags", 0, NoTime, <<>>, <<>>))

\* DELETE FROM item_tags WHERE item_id IN (SELECT id ... deleted_at IS NOT NULL)
empty_trash_delete_item_tags(c) ==
    /\ At(c, "empty_trash", "delete_item_tags")
    /\ LockFree(c)
    /\ LET f == calls[c]
           v == View(c)
       IN Goes(c, [f EXCEPT !.pc = "delete_items",
                            !.w = [v EXCEPT !.item_tags =
                                      {p \in @ : p[1] \notin Trashed(v.items)}]])

\* DELETE FROM items WHERE deleted_at IS NOT NULL
empty_trash_delete_items(c) ==
    /\ At(c, "empty_trash", "delete_items")
    /\ LET f == calls[c]
       IN Goes(c, [f EXCEPT !.pc = "cleanup",
                            !.w.items = Restrict(@, DOMAIN @ \ Trashed(@))])

update_item_tags_call(c, item_id, tags_list, picks) ==
    Enter(c, Frame("update_item_tags", "delete_item_tags", item_id, NoTime,
                   tags_list, picks))

\* where update_item_tags goes from entry k of tags_list
tags_pc(f, k) == IF k > Len(f.tags_list) THEN "cleanup" ELSE "select_tag"

\* DELETE FROM item_tags WHERE item_id = ?
update_item_tags_delete_item_tags(c) ==
    /\ At(c, "update_item_tags", "delete_item_tags")
    /\ LockFree(c)
    /\ LET f == calls[c]
           v == View(c)
           k == next_entry(f.tags_list, 1)
       IN Goes(c, [f EXCEPT !.pc = tags_pc(f, k), !.k = k,
                            !.w = [v EXCEPT !.item_tags =
                                      {p \in @ : p[1] # f.item_id}]])

\* SELECT id FROM tags WHERE name = ?
update_item_tags_select_tag(c) ==
    /\ At(c, "update_item_tags", "select_tag")
    /\ LET f == calls[c]
           found == TagIdsNamed(f.w.tags, strip(f.tags_list[f.k]))
       IN IF found # {}
          THEN Goes(c, [f EXCEPT !.pc = "insert_item_tags",
                                 !.tag_id = CHOOSE t \in found : TRUE])
          ELSE Goes(c, [f EXCEPT !.pc = "insert_tags"])

\* INSERT INTO tags (name, color) VALUES (?, ?); tag_id = c.lastrowid
update_item_tags_insert_tags(c) ==
    /\ At(c, "update_item_tags", "insert_tags")
    /\ LET f == calls[c]
           tag_id == NewRowId(f.w.tags)
       IN Goes(c, [f EXCEPT !.pc = "insert_item_tags",
                            !.tag_id = tag_id,
                            !.w.tags = Extend(@, tag_id,
                                [name |-> strip(f.tags_list[f.k]),
                                 color |-> f.picks[f.k]])])

\* INSERT INTO item_tags (item_id, tag_id) VALUES (?, ?): IntegrityError when
\* the pair is there, and the function is left without commit
update_item_tags_insert_item_tags(c) ==
    /\ At(c, "update_item_tags", "insert_item_tags")
    /\ LET f == calls[c]
           k == next_entry(f.tags_list, f.k + 1)
       IN IF <<f.item_id, f.tag_id>> \in f.w.item_tags
          THEN /\ calls' = Restrict(calls, DOMAIN calls \ {c})
               /\ last' = Call(f.op, None, TRUE, {}, {})
               /\ UNCHANGED <<items, tags, item_tags, columns>>
          ELSE Goes(c, [f EXCEPT !.pc = tags_pc(f, k), !.k = k,
                                 !.w.item_tags = @ \cup {<<f.item_id, f.tag_id>>}])

\* _cleanup_orphaned_tags(conn), in the transaction of its caller
cleanup_orphaned_tags_statement(c) ==
    /\ c \in DOMAIN calls
    /\ calls[c].pc = "cleanup"
    /\ LET f == calls[c]
           tgs == cleanup_orphaned_tags(f.w.tags, f.w.item_tags)
       IN Goes(c, [f EXCEPT !.pc = "commit",
                            !.gc = DOMAIN f.w.tags \ DOMAIN tgs,
                            !.w.tags = tgs])

\* toggle_todo_status(item_id, action_date) is called; row is what fetchone
\* has returned: <<>> before the SELECT and for None, <<is_done>> for a row
toggle_todo_status_call(c, item_id, action_date) ==
    Enter(c, [op |-> "toggle_todo_status", pc |-> "select",
              item_id |-> item_id, action_date |-> action_date,
              row |-> <<>>, purged |-> {}, gc |-> {}, w |-> NoTables])

\* SELECT is_done FROM items WHERE id = ?; row = c.fetchone().  A SELECT
\* opens no transaction: it reads the tables as last committed.
toggle_todo_status_select(c) ==
    /\ At(c, "toggle_todo_status", "select")
    /\ LET f == calls[c]
           row == IF f.item_id \in DOMAIN items
                  THEN <<items[f.item_id].is_done>>
                  ELSE <<>>
       IN Goes(c, [f EXCEPT !.row = row,
                            !.pc = IF row = <<>> THEN "commit" ELSE "update"])

\* if row[0] == 0: UPDATE ... is_done = 1, finish_date = ?
\* else: UPDATE ... is_done = 0, finish_date = NULL
toggle_todo_status_update(c) ==
    /\ At(c, "toggle_todo_status", "update")
    /\ LockFree(c)
    /\ LET f == calls[c]
           v == View(c)
           upd == IF f.item_id \in DOMAIN v.items
                  THEN [v.items EXCEPT ![f.item_id] =
                          toggle_row([@ EXCEPT !.is_done = f.row[1]],
                                     f.action_date)]
                  ELSE v.items
       IN Goes(c, [f EXCEPT !.pc = "commit", !.w = [v EXCEPT !.items = upd]])

\* conn.commit(); conn.close(): the connection's view becomes the tables
commit(c) ==
    /\ c \in DOMAIN calls
    /\ calls[c].pc = "commit"
    /\ LET f == calls[c]
       IN /\ items' = View(c).items
          /\ tags' = View(c).tags
          /\ item_tags' = View(c).item_tags
          /\ last' = Call(f.op, None, FALSE, f.purged, f.gc)
          /\ calls' = Restrict(calls, DOMAIN calls \ {c})
          /\ UNCHANGED columns

\* the process of call c dies: its open transaction is rolled back.  The call
\* record names the operation that was cut short and keeps the item rows and
\* tag rows the lost transaction had deleted.
crash(c) ==
    /\ c \in DOMAIN calls
    /\ calls' = Restrict(calls, DOMAIN calls \ {c})
    /\ last' = Call("crash", calls[c].op, FALSE, calls[c].purged, calls[c].gc)
    /\ UNCHANGED <<items, tags, item_tags, columns>>

\* ------------------------------------------------------------ read queries

\* get_tags_for_item: the (name, color) rows of the join of tags and item_tags
get_tags_for_item(tgs, its_tags, item_id) ==
    {<<tgs[p[2]].name, tgs[p[2]].color>> :
        p \in {q \in its_tags : q[1] = item_id /\ q[2] \in DOMAIN tgs}}

\* variant: the join leaves out `WHERE i.deleted_at IS NULL`
tag_groups_withtrash(its, tgs, its_tags) ==
    LET holders(t) == {p \in its_tags : /\ p[2] = t
                                        /\ p[1] \in DOMAIN its}
    IN {<<t, tgs[t].name, Cardinality(holders(t))>> :
            t \in {u \in DOMAIN tgs : holders(u) # {}}}

\* the groups of get_all_tags: (id, name, count) over the join with the
\* items that are not trashed; a tag without such an item forms no group
tag_groups(its, tgs, its_tags) ==
    LET holders(t) == {p \in its_tags : /\ p[2] = t
                                        /\ p[1] \in DOMAIN its
                                        /\ its[p[1]].deleted_at = NoTime}
    IN {<<t, tgs[t].name, Cardinality(holders(t))>> :
            t \in {u \in DOMAIN tgs : holders(u) # {}}}

\* get_all_tags: the groups ORDER BY count DESC (every such order)
get_all_tags(its, tgs, its_tags) ==
    LET G == tag_groups(its, tgs, its_tags)
        n == Cardinality(G)
    IN {s \in [1..n -> G] :
            /\ \A i, j \in 1..n : i # j => s[i] # s[j]
            /\ \A i \in 1..n : \A j \in 1..n : i < j => s[i][3] >= s[j][3]}

ItemRow(its, i) ==
    <<i, its[i].type, its[i].content, its[i].is_done, its[i].finish_date,
      its[i].alias, its[i].mood>>

\* variant: the second SELECT compares finish_date > ? instead of >= ?
get_items_for_date_strict(its, target_date) ==
    LET first == {i \in DOMAIN its : /\ its[i].date = target_date
                                     /\ its[i].type # "todo"
                                     /\ its[i].deleted_at = NoTime}
        second == {i \in DOMAIN its :
                      /\ its[i].type = "todo"
                      /\ StrLE(its[i].date, target_date)
                      /\ \/ its[i].is_done = 0
                         \/ /\ its[i].finish_date # NoDate
                            /\ StrLT(target_date, its[i].finish_date)
                      /\ its[i].deleted_at = NoTime}
        rows(S) == [k \in 1..Cardinality(S) |-> ItemRow(its, Ascending(S)[k])]
    IN rows(first) \o rows(second)

\* get_items_for_date: the rows of the first SELECT followed by those of the
\* second, each in rowid order
get_items_for_date(its, target_date) ==
    LET first == {i \in DOMAIN its : /\ its[i].date = target_date
                                     /\ its[i].type # "todo"
                                     /\ its[i].deleted_at = NoTime}
        second == {i \in DOMAIN its :
                      /\ its[i].type = "todo"
                      /\ StrLE(its[i].date, target_date)
                      /\ \/ its[i].is_done = 0
                         \/ /\ its[i].finish_date # NoDate
                            /\ StrLE(target_date, its[i].finish_date)
                      /\ its[i].deleted_at = NoTime}
        rows(S) == [k \in 1..Cardinality(S) |-> ItemRow(its, Ascending(S)[k])]
    IN rows(first) \o rows(second)

\* the orders `ORDER BY date` allows for the rows T: ascending in the date
\* string, rows with equal dates in any order
RECURSIVE OrdersByDate(_, _)
OrdersByDate(its, T) ==
    IF T = {} THEN {<<>>}
    ELSE UNION {{<<m>> \o o : o \in OrdersByDate(its, T \ {m})} :
                   m \in {i \in T : \A j \in T : StrLE(its[i].date, its[j].date)}}

EntryRow(its, i) ==
    <<its[i].type, its[i].date, its[i].alias, its[i].content, its[i].mood>>

\* variant: the SELECT has `WHERE deleted_at IS NULL`
get_all_entries_live(its) ==
    {[k \in 1..Len(o) |-> EntryRow(its, o[k])] :
        o \in OrdersByDate(its, {i \in DOMAIN its : its[i].deleted_at = NoTime})}

\* get_all_entries: SELECT type, date, alias, content, mood FROM items
\* ORDER BY date (every order SQL may return)
get_all_entries(its) ==
    {[k \in 1..Len(o) |-> EntryRow(its, o[k])] :
        o \in OrdersByDate(its, DOMAIN its)}

TagItemRow(its, i) ==
    <<i, its[i].type, its[i].content, its[i].is_done, its[i].finish_date,
      its[i].alias, its[i].mood, its[i].date>>

\* variant: the join has no `i.deleted_at IS NULL`
get_items_by_tag_withtrash(its, its_tags, tag_id) ==
    {[k \in 1..Len(o) |-> TagItemRow(its, o[k])] :
        o \in OrdersByDate(its, {i \in DOMAIN its : <<i, tag_id>> \in its_tags})}

\* get_items_by_tag: the rows of items joined with item_tags on the tag, not
\* trashed, ORDER BY date (every order SQL may return)
get_items_by_tag(its, its_tags, tag_id) ==
    {[k \in 1..Len(o) |-> TagItemRow(its, o[k])] :
        o \in OrdersByDate(its, {i \in DOMAIN its :
                                    /\ <<i, tag_id>> \in its_tags
                                    /\ its[i].deleted_at = NoTime})}

\* ----------------------------------------------------------------- calendar

IsLeap(year) ==
    year % 4 = 0 /\ (year % 100 # 0 \/ year % 400 = 0)

\* calendar.monthrange(year, month)[1]
monthrange(year, month) ==
    IF month = 2 THEN (IF IsLeap(year) THEN 29 ELSE 28)
    ELSE IF month \in {4, 6, 9, 11} THEN 30 ELSE 31

\* date.fromisoformat(s) returns (and does not raise ValueError)
fromisoformat_ok(s) ==
    /\ s # NoDate
    /\ s[2] \in 1..12
    /\ s[3] \in 1..monthrange(s[1], s[2])

\* comparison of two datetime.date values
DateLT(a, b) ==
    \/ a[1] < b[1]
    \/ a[1] = b[1] /\ a[2] < b[2]
    \/ a[1] = b[1] /\ a[2] = b[2] /\ a[3] < b[3]

DateLE(a, b) == a = b \/ DateLT(a, b)

DateMax(a, b) == IF DateLT(a, b) THEN b ELSE a

DateMin(a, b) == IF DateLT(a, b) THEN a ELSE b

\* d + timedelta(days=1)
NextDay(d) ==
    IF d[3] < monthrange(d[1], d[2]) THEN <<d[1], d[2], d[3] + 1>>
    ELSE IF d[2] < 12 THEN <<d[1], d[2] + 1, 1>>
    ELSE <<d[1] + 1, 1, 1>>

\* the loop `while curr <= end: ... curr.day ...; curr += timedelta(days=1)`:
\* the days it visits
RECURSIVE days_walk(_, _)
days_walk(curr, end) ==
    IF DateLE(curr, end) THEN {curr[3]} \cup days_walk(NextDay(curr), end)
    ELSE {}

\* the finish_date a todo row yields: date.fromisoformat(finish_str) if
\* (is_done and finish_str) else None
todo_finish(row) ==
    IF row.is_done # 0 /\ row.finish_date # NoDate THEN row.finish_date
    ELSE NoDate

\* one pass of the todo loop of get_marked_days: the days the row marks
marked_by_todo(row, year, month) ==
    LET month_start == <<year, month, 1>>
        month_end == <<year, month, monthrange(year, month)>>
        finish == todo_finish(row)
    IN IF ~fromisoformat_ok(row.date) THEN {}
       ELSE IF DateLT(month_end, row.date) THEN {}
       ELSE IF finish # NoDate /\ ~fromisoformat_ok(finish) THEN {}
       ELSE IF finish # NoDate /\ DateLT(finish, month_start) THEN {}
       ELSE LET start == DateMax(row.date, month_start)
                end == IF finish # NoDate THEN DateMin(finish, month_end)
                       ELSE month_end
            IN days_walk(start, end)

\* variant: the day is cut out of the date string, date.fromisoformat is not
\* asked
get_marked_days_unparsed(its, year, month) ==
    LET dated == {i \in DOMAIN its : /\ its[i].type # "todo"
                                     /\ LikeMonth(its[i].date, year, month)}
        todos == {i \in DOMAIN its : its[i].type = "todo"}
    IN {its[i].date[3] : i \in dated}
         \cup UNION {marked_by_todo(its[i], year, month) : i \in todos}

\* variant: the try is around the todo loop, the first ValueError ends it
\* (the rows come in the order of their ids)
get_marked_days_fatal(its, year, month) ==
    LET dated == {i \in DOMAIN its : /\ its[i].type # "todo"
                                     /\ LikeMonth(its[i].date, year, month)
                                     /\ fromisoformat_ok(its[i].date)}
        todos == {i \in DOMAIN its : its[i].type = "todo"}
        raises(i) == \/ ~fromisoformat_ok(its[i].date)
                     \/ /\ todo_finish(its[i]) # NoDate
                        /\ ~fromisoformat_ok(todo_finish(its[i]))
        seen == {i \in todos : \A j \in todos : j <= i => ~raises(j)}
    IN {its[i].date[3] : i \in dated}
         \cup UNION {marked_by_todo(its[i], year, month) : i \in seen}

get_marked_days(its, year, month) ==
    LET dated == {i \in DOMAIN its : /\ its[i].type # "todo"
                                     /\ LikeMonth(its[i].date, year, month)
                                     /\ fromisoformat_ok(its[i].date)}
        todos == {i \in DOMAIN its : its[i].type = "todo"}
    IN {its[i].date[3] : i \in dated}
         \cup UNION {marked_by_todo(its[i], year, month) : i \in todos}

\* variant: the loop runs `while curr < end`
counted_by_todo_excl(row, year, month) ==
    LET month_start == <<year, month, 1>>
        month_end == <<year, month, monthrange(year, month)>>
        finish == todo_finish(row)
    IN IF ~fromisoformat_ok(row.date) THEN {}
       ELSE IF finish # NoDate /\ ~fromisoformat_ok(finish) THEN {}
       ELSE LET start == DateMax(row.date, month_start)
                end == IF finish # NoDate THEN DateMin(finish, month_end)
                       ELSE month_end
            IN days_walk(start, end) \ {end[3]}

\* one pass of the todo loop of get_month_stats: the days the row counts on
counted_by_todo(row, year, month) ==
    LET month_start == <<year, month, 1>>
        month_end == <<year, month, monthrange(year, month)>>
        finish == todo_finish(row)
    IN IF ~fromisoformat_ok(row.date) THEN {}
       ELSE IF finish # NoDate /\ ~fromisoformat_ok(finish) THEN {}
       ELSE LET start == DateMax(row.date, month_start)
                end == IF finish # NoDate THEN DateMin(finish, month_end)
                       ELSE month_end
            IN days_walk(start, end)

\* variant: the SELECTs have no `deleted_at IS NULL`
get_month_stats_withtrash(its, year, month) ==
    LET live == DOMAIN its
        on(d, t) == {i \in live : /\ its[i].type = t
                                  /\ LikeMonth(its[i].date, year, month)
                                  /\ fromisoformat_ok(its[i].date)
                                  /\ its[i].date[3] = d}
        moods(d) == {i \in on(d, "diary") : its[i].mood \notin {None, ""}}
        month_end == <<year, month, monthrange(year, month)>>
        todos == {i \in live : /\ its[i].type = "todo"
                               /\ StrLE(its[i].date, month_end)}
        \* <<i, d>>: the loop over todo row i runs stats[d]['todo'] += 1
        incr == UNION {{<<i, d>> : d \in counted_by_todo(its[i], year, month)} :
                          i \in todos}
    IN [d \in 1..monthrange(year, month) |->
          [diary |-> Cardinality(on(d, "diary")),
           file |-> Cardinality(on(d, "file")),
           note |-> Cardinality(on(d, "note")),
           todo |-> Cardinality({i \in todos : <<i, d>> \in incr}),
           diary_mood |-> IF moods(d) = {} THEN None
                          ELSE its[Max(moods(d))].mood]]

\* variant: the mood is stored only `if 'diary_mood' not in stats[day]`
get_month_stats_firstmood(its, year, month) ==
    LET live == {i \in DOMAIN its : its[i].deleted_at = NoTime}
        on(d, t) == {i \in live : /\ its[i].type = t
                                  /\ LikeMonth(its[i].date, year, month)
                                  /\ fromisoformat_ok(its[i].date)
                                  /\ its[i].date[3] = d}
        moods(d) == {i \in on(d, "diary") : its[i].mood \notin {None, ""}}
        month_end == <<year, month, monthrange(year, month)>>
        todos == {i \in live : /\ its[i].type = "todo"
                               /\ StrLE(its[i].date, month_end)}
        \* <<i, d>>: the loop over todo row i runs stats[d]['todo'] += 1
        incr == UNION {{<<i, d>> : d \in counted_by_todo(its[i], year, month)} :
                          i \in todos}
    IN [d \in 1..monthrange(year, month) |->
          [diary |-> Cardinality(on(d, "diary")),
           file |-> Cardinality(on(d, "file")),
           note |-> Cardinality(on(d, "note")),
           todo |-> Cardinality({i \in todos : <<i, d>> \in incr}),
           diary_mood |-> IF moods(d) = {} THEN None
                          ELSE its[-Max({-i : i \in moods(d)})].mood]]

get_month_stats(its, year, month) ==
    LET live == {i \in DOMAIN its : its[i].deleted_at = NoTime}
        on(d, t) == {i \in live : /\ its[i].type = t
                                  /\ LikeMonth(its[i].date, year, month)
                                  /\ fromisoformat_ok(its[i].date)
                                  /\ its[i].date[3] = d}
        moods(d) == {i \in on(d, "diary") : its[i].mood \notin {None, ""}}
        month_end == <<year, month, monthrange(year, month)>>
        todos == {i \in live : /\ its[i].type = "todo"
                               /\ StrLE(its[i].date, month_end)}
        \* <<i, d>>: the loop over todo row i runs stats[d]['todo'] += 1
        incr == UNION {{<<i, d>> : d \in counted_by_todo(its[i], year, month)} :
                          i \in todos}
    IN [d \in 1..monthrange(year, month) |->
          [diary |-> Cardinality(on(d, "diary")),
           file |-> Cardinality(on(d, "file")),
           note |-> Cardinality(on(d, "note")),
           todo |-> Cardinality({i \in todos : <<i, d>> \in incr}),
           diary_mood |-> IF moods(d) = {} THEN None
                          ELSE its[Max(moods(d))].mood]]

\* `date LIKE 'Y-%'`
LikeYear(d, year) == d # NoDate /\ d[1] = year

\* the rows of the first SELECT of get_year_stats whose date parses
year_created_rows(its, year) ==
    {i \in DOMAIN its : /\ LikeYear(its[i].date, year)
                        /\ its[i].deleted_at = NoTime
                        /\ fromisoformat_ok(its[i].date)}

\* variant: the second SELECT also asks for `date LIKE ?`
year_done_rows_sameyear(its, year) ==
    {i \in DOMAIN its : /\ its[i].type = "todo"
                        /\ its[i].is_done = 1
                        /\ LikeYear(its[i].finish_date, year)
                        /\ LikeYear(its[i].date, year)
                        /\ its[i].deleted_at = NoTime
                        /\ fromisoformat_ok(its[i].finish_date)}

\* the rows of the second SELECT of get_year_stats whose finish_date parses
year_done_rows(its, year) ==
    {i \in DOMAIN its : /\ its[i].type = "todo"
                        /\ its[i].is_done = 1
                        /\ LikeYear(its[i].finish_date, year)
                        /\ its[i].deleted_at = NoTime
                        /\ fromisoformat_ok(its[i].finish_date)}

\* variant: a todo is counted in its creation month and in every later month
\* of the year
get_year_stats_running(its, year) ==
    LET created == year_created_rows(its, year)
        done == year_done_rows(its, year)
        by(t, m) == Cardinality({i \in created : /\ its[i].type = t
                                                  /\ its[i].date[2] = m})
    IN [diary |-> [m \in 1..12 |-> by("diary", m)],
        note |-> [m \in 1..12 |-> by("note", m)],
        file |-> [m \in 1..12 |-> by("file", m)],
        todo_created |-> [m \in 1..12 |->
            Cardinality({i \in created : /\ its[i].type = "todo"
                                         /\ its[i].date[2] <= m})],
        todo_done |-> [m \in 1..12 |->
            Cardinality({i \in done : its[i].finish_date[2] = m})],
        total_todos |-> Cardinality({i \in created : its[i].type = "todo"}),
        finished_todos |-> Cardinality(done)]

\* get_year_stats: months are 1..12 here (month_idx + 1)
get_year_stats(its, year) ==
    LET created == year_created_rows(its, year)
        done == year_done_rows(its, year)
        by(t, m) == Cardinality({i \in created : /\ its[i].type = t
                                                  /\ its[i].date[2] = m})
    IN [diary |-> [m \in 1..12 |-> by("diary", m)],
        note |-> [m \in 1..12 |-> by("note", m)],
        file |-> [m \in 1..12 |-> by("file", m)],
        todo_created |-> [m \in 1..12 |-> by("todo", m)],
        todo_done |-> [m \in 1..12 |->
            Cardinality({i \in done : its[i].finish_date[2] = m})],
        total_todos |-> Cardinality({i \in created : its[i].type = "todo"}),
        finished_todos |-> Cardinality(done)]

\* ------------------------------------------------------------------ inputs

StoreDate == <<2024, 3, 1>>
Times == 1..MaxTime
NameA == <<"a">>
PadA == <<" ", "a">>
Blank == <<" ">>
NameB == <<"b">>
NameC == <<"c">>

\* ------------------------------------- Spec: the item table and the trash
\* Every operation of the store.  The text inputs are one value each; the
\* in-place mutators and update_item_tags address the ids of EditIds; a tag
\* list is empty, a blank entry and a padded name, or two entries that trim
\* to the same name.

EditIds == {1}
TagIds == {1, 2}
StoreTagLists == {<<>>, <<Blank, PadA>>, <<NameA, PadA>>}

AddItem ==
    /\ NewRowId(items) <= MaxId
    /\ add_item("todo", "c", StoreDate, "t", "m", StoreDate)
    /\ UNCHANGED <<calls, columns>>

Toggle ==
    /\ \E id \in EditIds : toggle_todo_status(id, StoreDate)
    /\ UNCHANGED <<calls, columns>>

SoftDelete ==
    /\ \E id \in 1..MaxId, now \in Times : soft_delete_item(id, now)
    /\ UNCHANGED <<calls, columns>>

Recover ==
    /\ recover_last_deleted
    /\ UNCHANGED <<calls, columns>>

EmptyTrash ==
    /\ empty_trash
    /\ UNCHANGED <<calls, columns>>

DeleteItem ==
    /\ \E id \in 1..MaxId : delete_item(id)
    /\ UNCHANGED <<calls, columns>>

UpdateContent ==
    /\ \E id \in EditIds : update_item_content(id, "c")
    /\ UNCHANGED <<calls, columns>>

UpdateAlias ==
    /\ \E id \in EditIds : update_item_alias(id, "t")
    /\ UNCHANGED <<calls, columns>>

UpdateDiary ==
    /\ \E id \in EditIds : update_diary_item(id, "t", "m", "c")
    /\ UNCHANGED <<calls, columns>>

UpdateTags ==
    /\ \E id \in EditIds, tags_list \in StoreTagLists :
           \E picks \in [1..Len(tags_list) -> {"red"}] :
               /\ DOMAIN tags_rewrite(id, tags_list, picks).tags \subseteq TagIds
               /\ update_item_tags(id, tags_list, picks)
    /\ UNCHANGED <<calls, columns>>

Next ==
    \/ AddItem
    \/ Toggle
    \/ SoftDelete
    \/ Recover
    \/ EmptyTrash
    \/ DeleteItem
    \/ UpdateContent
    \/ UpdateAlias
    \/ UpdateDiary
    \/ UpdateTags

Spec == Init /\ [][Next]_vars

\* ------------------------------------------- SpecClock: the trash and the clock
\* add_item, soft_delete_item and recover_last_deleted, with wall clock
\* readings that never repeat and come in any order (datetime.now() is the
\* local wall clock: it steps back at the end of daylight saving time and
\* whenever the clock or the time zone is set back).

ClockTimes == 1..MaxClock

ClockAdd ==
    /\ NewRowId(items) <= MaxId
    /\ add_item("note", "c", StoreDate, None, None, StoreDate)
    /\ UNCHANGED <<calls, columns>>

ClockSoftDelete ==
    /\ \E id \in 1..MaxId, now \in ClockTimes :
           /\ now \notin {items[i].deleted_at : i \in DOMAIN items}
           /\ soft_delete_item(id, now)
    /\ UNCHANGED <<calls, columns>>

ClockRecover ==
    /\ recover_last_deleted
    /\ UNCHANGED <<calls, columns>>

NextClock ==
    \/ ClockAdd
    \/ ClockSoftDelete
    \/ ClockRecover

SpecClock == Init /\ [][NextClock]_vars

\* ------------------------------------------------- SpecCal: the calendar
\* Notes and todos on dates of January and February 2024, completed on
\* action dates before and after them, trashed and recovered.

Today == <<2024, 1, 5>>
CalAddDates == {NoDate, <<2024, 1, 5>>, <<2024, 2, 1>>}
CalActionDates == {<<2024, 1, 20>>, <<2024, 2, 29>>}
CalTypes == {"note", "todo"}
QueryMonths == {<<2023, 12>>, <<2024, 1>>, <<2024, 2>>, <<2024, 3>>}
QueryDates ==
    {<<2023, 12, 31>>, <<2024, 1, 5>>, <<2024, 1, 6>>, <<2024, 1, 20>>,
     <<2024, 1, 21>>, <<2024, 2, 1>>, <<2024, 2, 29>>, <<2024, 3, 1>>}

CalAdd ==
    /\ \E t \in CalTypes, d \in CalAddDates :
           /\ NewRowId(items) <= MaxCalId
           /\ add_item(t, "c", d, None, None, Today)
    /\ UNCHANGED <<calls, columns>>

CalToggle ==
    /\ \E id \in 1..MaxCalId, d \in CalActionDates : toggle_todo_status(id, d)
    /\ UNCHANGED <<calls, columns>>

CalSoftDelete ==
    /\ \E id \in 1..MaxCalId : soft_delete_item(id, 1)
    /\ UNCHANGED <<calls, columns>>

CalRecover ==
    /\ recover_last_deleted
    /\ UNCHANGED <<calls, columns>>

NextCal ==
    \/ CalAdd
    \/ CalToggle
    \/ CalSoftDelete
    \/ CalRecover

SpecCal == Init /\ [][NextCal]_vars

\* ------------------------------------------------- SpecYear: the year view
\* Notes and todos created on the last day of 2023, on 2024-01-05 (today) and
\* on the string "2024-02-30", which is no calendar date; completed on
\* 2024-02-29 or on "2024-02-30"; trashed and recovered.

YearAddDates == {NoDate, <<2023, 12, 31>>, <<2024, 2, 30>>}
YearActionDates == {<<2024, 2, 29>>, <<2024, 2, 30>>}
QueryYears == {2023, 2024, 2025}

YearAdd ==
    /\ \E t \in CalTypes, d \in YearAddDates :
           /\ NewRowId(items) <= MaxCalId
           /\ add_item(t, "c", d, None, None, Today)
    /\ UNCHANGED <<calls, columns>>

YearToggle ==
    /\ \E id \in 1..MaxCalId, d \in YearActionDates : toggle_todo_status(id, d)
    /\ UNCHANGED <<calls, columns>>

YearSoftDelete ==
    /\ \E id \in 1..MaxCalId : soft_delete_item(id, 1)
    /\ UNCHANGED <<calls, columns>>

YearRecover ==
    /\ recover_last_deleted
    /\ UNCHANGED <<calls, columns>>

NextYear ==
    \/ YearAdd
    \/ YearToggle
    \/ YearSoftDelete
    \/ YearRecover

SpecYear == Init /\ [][NextYear]_vars

\* ------------------------------------------------- SpecTags: the tag registry
\* The notes of TagItemIds, each retagged with no name, "a", "b" and "a", or
\* "c"; trashed, recovered, deleted and purged.  update_item_tags and delete_item
\* are also called with ids that match no item.

TagLists == {<<>>, <<NameA>>, <<NameB, NameA>>, <<NameC>>}
TagRowIds == {1, 2, 3}
TagItemIds == {1, 2, 3}

TagsAdd ==
    /\ NewRowId(items) \in TagItemIds
    /\ add_item("note", "c", StoreDate, None, None, StoreDate)
    /\ UNCHANGED <<calls, columns>>

TagsRewrite ==
    /\ \E id \in TagItemIds, tags_list \in TagLists :
           \E picks \in [1..Len(tags_list) -> {"red"}] :
               /\ DOMAIN tags_rewrite(id, tags_list, picks).tags \subseteq TagRowIds
               /\ update_item_tags(id, tags_list, picks)
    /\ UNCHANGED <<calls, columns>>

TagsSoftDelete ==
    /\ \E id \in TagItemIds : soft_delete_item(id, 1)
    /\ UNCHANGED <<calls, columns>>

TagsRecover ==
    /\ recover_last_deleted
    /\ UNCHANGED <<calls, columns>>

TagsDelete ==
    /\ \E id \in TagItemIds : delete_item(id)
    /\ UNCHANGED <<calls, columns>>

TagsEmptyTrash ==
    /\ empty_trash
    /\ UNCHANGED <<calls, columns>>

NextTags ==
    \/ TagsAdd
    \/ TagsRewrite
    \/ TagsSoftDelete
    \/ TagsRecover
    \/ TagsDelete
    \/ TagsEmptyTrash

SpecTags == Init /\ [][NextTags]_vars

\* ------------------------------------------- SpecCrash: a process that may die
\* One caller runs soft_delete_item, delete_item, empty_trash and
\* update_item_tags statement by statement, one call at a time, and may die
\* before any statement and before the commit.

Caller == 1
CrashItemIds == {1, 2, 3, 4}

CrashAdd ==
    /\ calls = <<>>
    /\ NewRowId(items) \in CrashItemIds
    /\ add_item("note", "c", StoreDate, None, None, StoreDate)
    /\ UNCHANGED <<calls, columns>>

CrashSoftDelete ==
    \/ \E id \in CrashItemIds, now \in Times : soft_delete_item_call(Caller, id, now)
    \/ soft_delete_item_update(Caller)
    \/ soft_delete_item_select(Caller)
    \/ soft_delete_item_delete_item_tags(Caller)
    \/ soft_delete_item_delete_items(Caller)

CrashDeleteItem ==
    \/ \E id \in CrashItemIds : delete_item_call(Caller, id)
    \/ delete_item_delete_item_tags(Caller)
    \/ delete_item_delete_items(Caller)

CrashEmptyTrash ==
    \/ empty_trash_call(Caller)
    \/ empty_trash_delete_item_tags(Caller)
    \/ empty_trash_delete_items(Caller)

CrashUpdateTags ==
    \/ \E id \in EditIds, tags_list \in StoreTagLists :
          \E picks \in [1..Len(tags_list) -> {"red"}] :
              /\ DOMAIN tags_rewrite(id, tags_list, picks).tags \subseteq TagIds
              /\ update_item_tags_call(Caller, id, tags_list, picks)
    \/ update_item_tags_delete_item_tags(Caller)
    \/ update_item_tags_select_tag(Caller)
    \/ update_item_tags_insert_tags(Caller)
    \/ update_item_tags_insert_item_tags(Caller)

CrashCleanup == cleanup_orphaned_tags_statement(Caller)

CrashCommit == commit(Caller)

Crash == crash(Caller)

NextCrash ==
    \/ CrashAdd
    \/ CrashSoftDelete
    \/ CrashDeleteItem
    \/ CrashEmptyTrash
    \/ CrashUpdateTags
    \/ CrashCleanup
    \/ CrashCommit
    \/ Crash

SpecCrash == Init /\ [][NextCrash]_vars

\* ------------------------------------------------- SpecExport: the export view
\* Notes on three dates, given in any order; the first two tagged "a" or
\* untagged; trashed (so that the fourth trashed one forces a purge),
\* recovered, deleted and purged.

ExportItemIds == {1, 2, 3, 4}
ExportDates == {<<2023, 12, 31>>, <<2024, 1, 5>>, <<2024, 2, 1>>}
ExportTaggedIds == {1, 2}
ExportTagLists == {<<>>, <<NameA>>}

ExportAdd ==
    /\ \E d \in ExportDates :
           /\ NewRowId(items) \in ExportItemIds
           /\ add_item("note", "c", d, None, None, Today)
    /\ UNCHANGED <<calls, columns>>

ExportSoftDelete ==
    /\ \E id \in ExportItemIds : soft_delete_item(id, 1)
    /\ UNCHANGED <<calls, columns>>

ExportRecover ==
    /\ recover_last_deleted
    /\ UNCHANGED <<calls, columns>>

ExportDelete ==
    /\ \E id \in ExportItemIds : delete_item(id)
    /\ UNCHANGED <<calls, columns>>

ExportEmptyTrash ==
    /\ empty_trash
    /\ UNCHANGED <<calls, columns>>

ExportRetag ==
    /\ \E id \in ExportTaggedIds, tags_list \in ExportTagLists :
           \E picks \in [1..Len(tags_list) -> {"red"}] :
               update_item_tags(id, tags_list, picks)
    /\ UNCHANGED <<calls, columns>>

NextExport ==
    \/ ExportAdd
    \/ ExportRetag
    \/ ExportSoftDelete
    \/ ExportRecover
    \/ ExportDelete
    \/ ExportEmptyTrash

SpecExport == Init /\ [][NextExport]_vars

\* ------------------------------------------------- SpecSchema: an older file
\* The store is opened on a file written by an earlier version: no table
\* items, or a table with id, date, type, content and any of the later
\* columns, holding no row, one row or two rows.

BaseColumns == <<"id", "date", "type", "content">>

\* the later columns a file has, in the order they were added
RECURSIVE LaterColumns(_)
LaterColumns(k) ==
    IF k > Len(MigratedColumns) THEN {<<>>}
    ELSE {<<MigratedColumns[k]>> \o r : r \in LaterColumns(k + 1)}
            \cup LaterColumns(k + 1)

LegacyColumns == {BaseColumns \o r : r \in LaterColumns(1)}

\* a done todo in the trash and a plain note, as stored under columns cols
LegacyRow(cols, full) ==
    [col \in ColumnSet(cols) \ {"id"} |-> full[col]]

DoneTodo ==
    [date |-> Today, type |-> "todo", content |-> "c", is_done |-> 1,
     finish_date |-> <<2024, 1, 20>>, alias |-> "t", mood |-> "m",
     deleted_at |-> 1]

PlainNote ==
    [date |-> Today, type |-> "note", content |-> "c", is_done |-> 0,
     finish_date |-> NoDate, alias |-> None, mood |-> None,
     deleted_at |-> NoTime]

InitSchema ==
    /\ \/ columns = <<>> /\ items = <<>>
       \/ /\ columns \in LegacyColumns
          /\ items \in {<<>>,
                        <<LegacyRow(columns, DoneTodo)>>,
                        <<LegacyRow(columns, DoneTodo),
                          LegacyRow(columns, PlainNote)>>}
    /\ tags = <<>>
    /\ item_tags = {}
    /\ last = Plain("none")
    /\ calls = <<>>

SchemaOpen == get_db

\* add_item on the opened store
SchemaAdd ==
    /\ last.op # "none"
    /\ NewRowId(items) <= MaxCalId + 1
    /\ add_item("note", "c", NoDate, None, None, Today)
    /\ UNCHANGED <<calls, columns>>

NextSchema ==
    \/ SchemaOpen
    \/ SchemaAdd

SpecSchema == InitSchema /\ [][NextSchema]_vars

\* ------------------------------------------------- SpecColor: the tag colors
\* Two notes retagged with "a", "b" or nothing, random.choice returning the
\* first or the last color of the list; items are deleted.

ColorItemIds == {1, 2}
ColorTagLists == {<<>>, <<NameA>>, <<NameB>>, <<PadA, NameB>>}
PickedColors == {"red", "#8be9fd"}

ColorAdd ==
    /\ NewRowId(items) \in ColorItemIds
    /\ add_item("note", "c", StoreDate, None, None, StoreDate)
    /\ UNCHANGED <<calls, columns>>

ColorRetag ==
    /\ \E id \in ColorItemIds, tags_list \in ColorTagLists :
           \E picks \in [1..Len(tags_list) -> PickedColors] :
               /\ DOMAIN tags_rewrite(id, tags_list, picks).tags
                     \subseteq TagRowIds
               /\ update_item_tags(id, tags_list, picks)
    /\ UNCHANGED <<calls, columns>>

ColorDelete ==
    /\ \E id \in ColorItemIds : delete_item(id)
    /\ UNCHANGED <<calls, columns>>

NextColor ==
    \/ ColorAdd
    \/ ColorRetag
    \/ ColorDelete

SpecColor == Init /\ [][NextColor]_vars

\* ------------------------------------------- SpecRace: two processes toggling
\* Two processes share the database file; each runs toggle_todo_status one
\* statement at a time on one of two todos.

Callers == {1, 2}
RaceItemIds == {1, 2}

RaceAdd ==
    /\ calls = <<>>
    /\ NewRowId(items) \in RaceItemIds
    /\ add_item("todo", "c", Today, None, None, Today)
    /\ UNCHANGED <<calls, columns>>

RaceToggle ==
    \E c \in Callers :
        \/ \E id \in RaceItemIds, action_date \in CalActionDates :
               /\ id \in DOMAIN items
               /\ toggle_todo_status_call(c, id, action_date)
        \/ toggle_todo_status_select(c)
        \/ toggle_todo_status_update(c)

RaceCommit == \E c \in Callers : commit(c)

NextRace ==
    \/ RaceAdd
    \/ RaceToggle
    \/ RaceCommit

SpecRace == Init /\ [][NextRace]_vars

\* ------------------------------------- SpecStats: items of the four types
\* Two items of any of the types the program creates, dated January 5 or
\* February 1, 2024; todos are finished and reopened, items go to the trash
\* and come back.

StatsItemIds == {1, 2}
StatsTypes == {"diary", "file", "note", "todo"}

StatsAdd ==
    /\ \E t \in StatsTypes, d \in CalAddDates :
           /\ NewRowId(items) \in StatsItemIds
           /\ add_item(t, "c", d, None, None, Today)
    /\ UNCHANGED <<calls, columns>>

StatsToggle ==
    /\ \E id \in StatsItemIds, d \in CalActionDates : toggle_todo_status(id, d)
    /\ UNCHANGED <<calls, columns>>

StatsSoftDelete ==
    /\ \E id \in StatsItemIds : soft_delete_item(id, 1)
    /\ UNCHANGED <<calls, columns>>

StatsRecover ==
    /\ recover_last_deleted
    /\ UNCHANGED <<calls, columns>>

NextStats ==
    \/ StatsAdd
    \/ StatsToggle
    \/ StatsSoftDelete
    \/ StatsRecover

SpecStats == Init /\ [][NextStats]_vars

\* --------------------------------------------- SpecEdit: editing in place
\* Two items, a todo or a diary each, are toggled, given new content, alias,
\* title and mood, tagged, trashed and recovered.

EditItemIds == {1, 2}
EditTypes == {"todo", "diary"}
Texts == {"c", "d"}
Moods == {"m"}

EditAdd ==
    /\ \E t \in EditTypes :
           /\ NewRowId(items) \in EditItemIds
           /\ add_item(t, "c", Today, None, None, Today)
    /\ UNCHANGED <<calls, columns>>

EditToggle ==
    /\ \E id \in EditItemIds : toggle_todo_status(id, <<2024, 1, 20>>)
    /\ UNCHANGED <<calls, columns>>

EditContent ==
    /\ \E id \in EditItemIds, t \in Texts : update_item_content(id, t)
    /\ UNCHANGED <<calls, columns>>

EditAlias ==
    /\ \E id \in EditItemIds, t \in Texts : update_item_alias(id, t)
    /\ UNCHANGED <<calls, columns>>

EditDiary ==
    /\ \E id \in EditItemIds, t \in Texts, m \in Moods :
           update_diary_item(id, t, m, t)
    /\ UNCHANGED <<calls, columns>>

EditTags ==
    /\ 1 \in DOMAIN items
    /\ \E tags_list \in {<<>>, <<NameA>>} :
           update_item_tags(1, tags_list, [k \in 1..Len(tags_list) |-> "red"])
    /\ UNCHANGED <<calls, columns>>

EditSoftDelete ==
    /\ \E id \in EditItemIds : soft_delete_item(id, 1)
    /\ UNCHANGED <<calls, columns>>

EditRecover ==
    /\ recover_last_deleted
    /\ UNCHANGED <<calls, columns>>

NextEdit ==
    \/ EditAdd
    \/ EditToggle
    \/ EditContent
    \/ EditAlias
    \/ EditDiary
    \/ EditTags
    \/ EditSoftDelete
    \/ EditRecover

SpecEdit == Init /\ [][NextEdit]_vars

\* ------------------------------------- SpecSkip: dates that do not parse
\* Two items, a diary with a mood or a todo each, dated December 31, 2023 or
\* "2024-02-30"; todos are finished on February 29 or on "2024-02-30"; items
\* go to the trash and come back.

SkipItemIds == {1, 2}
SkipTypes == {"diary", "todo"}

SkipAdd ==
    /\ \E t \in SkipTypes, d \in YearAddDates \ {NoDate} :
           /\ NewRowId(items) \in SkipItemIds
           /\ add_item(t, "c", d, None, IF t = "diary" THEN "m" ELSE None, Today)
    /\ UNCHANGED <<calls, columns>>

SkipToggle ==
    /\ \E id \in SkipItemIds, d \in YearActionDates : toggle_todo_status(id, d)
    /\ UNCHANGED <<calls, columns>>

SkipSoftDelete ==
    /\ \E id \in SkipItemIds : soft_delete_item(id, 1)
    /\ UNCHANGED <<calls, columns>>

SkipRecover ==
    /\ recover_last_deleted
    /\ UNCHANGED <<calls, columns>>

NextSkip ==
    \/ SkipAdd
    \/ SkipToggle
    \/ SkipSoftDelete
    \/ SkipRecover

SpecSkip == Init /\ [][NextSkip]_vars

\* ------------------------------------------- SpecMood: diaries and moods
\* Two items, diaries or notes of January 5 or February 1, 2024; a diary is
\* created with a mood, with mood "" or with none, and update_diary_item
\* gives it another; items go to the trash and come back.

MoodItemIds == {1, 2}
MoodTypes == {"diary", "note"}
MoodDates == {<<2024, 1, 5>>, <<2024, 2, 1>>}
NewMoods == {None, "", "m", "n"}

MoodAdd ==
    /\ \E t \in MoodTypes, d \in MoodDates, m \in NewMoods :
           /\ NewRowId(items) \in MoodItemIds
           /\ t = "note" => m = None
           /\ add_item(t, "c", d, None, m, Today)
    /\ UNCHANGED <<calls, columns>>

MoodUpdate ==
    /\ \E id \in MoodItemIds, m \in NewMoods \ {None} :
           /\ id \in DOMAIN items
           /\ items[id].type = "diary"
           /\ update_diary_item(id, "t", m, "c")
    /\ UNCHANGED <<calls, columns>>

MoodSoftDelete ==
    /\ \E id \in MoodItemIds : soft_delete_item(id, 1)
    /\ UNCHANGED <<calls, columns>>

MoodRecover ==
    /\ recover_last_deleted
    /\ UNCHANGED <<calls, columns>>

NextMood ==
    \/ MoodAdd
    \/ MoodUpdate
    \/ MoodSoftDelete
    \/ MoodRecover

SpecMood == Init /\ [][NextMood]_vars

\* =================================================================== claims

\* the largest deleted_at among the trashed rows of its
NewestTime(its) == Max({its[i].deleted_at : i \in Trashed(its)})

\* the smallest deleted_at among the trashed rows of its
OldestTime(its) == -Max({-its[i].deleted_at : i \in Trashed(its)})

TagNamesOf(tgs, its_tags, item_id) ==
    {r[1] : r \in get_tags_for_item(tgs, its_tags, item_id)}

\* the non-empty trimmed names of a tag list
TrimmedNames(tags_list) ==
    {strip(tags_list[i]) : i \in DOMAIN tags_list} \ {<<>>}

\* C1: after any sequence of store operations at most 3 items have a
\* non-null deleted_at.
C1_AtMostThreeTrashed == Cardinality(Trashed(items)) <= 3

\* C1 witness: soft_delete_item has just purged a row and 3 rows are trashed.
C1_Witness ==
    /\ last.op = "soft_delete_item"
    /\ last.purged # {}
    /\ Cardinality(Trashed(items)) = 3

\* C2 (as claimed): with exactly 3 items trashed, soft_delete of a fourth,
\* existing and non-trashed item leaves exactly 3 trashed items: the new one
\* and the two most recently trashed before; the oldest trashed item (smallest
\* deleted_at) is gone from the item table with all its associations, and no
\* tag carried only by it appears in get_all_tags().
C2_PurgesPreviouslyOldest ==
    [][\A id \in DOMAIN items :
          (/\ Cardinality(Trashed(items)) = 3
           /\ id \notin Trashed(items)
           /\ \E now \in ClockTimes : soft_delete_item(id, now))
          => \E o \in Trashed(items) :
                /\ items[o].deleted_at = OldestTime(items)
                /\ Trashed(items') = (Trashed(items) \ {o}) \cup {id}
                /\ o \notin DOMAIN items'
                /\ \A p \in item_tags' : p[1] # o
                /\ \A t \in DOMAIN tags :
                      {p[1] : p \in {q \in item_tags : q[2] = t}} = {o}
                      => \A rows \in get_all_tags(items', tags', item_tags') :
                            \A k \in DOMAIN rows : rows[k][2] # tags[t].name
      ]_vars

\* C3: in every reachable state each tag row has at least one row in
\* item_tags.
C3_NoOrphanTag ==
    \A t \in DOMAIN tags : \E p \in item_tags : p[2] = t

\* C3 witness: the last operation removed a tag's last association and
\* _cleanup_orphaned_tags deleted the tag.
C3_Witness == last.gc # {} /\ tags = <<>>

\* C4: for every todo item, finish_date is non-null iff is_done is true.
C4_FinishIffDone ==
    \A i \in DOMAIN items :
        items[i].type = "todo"
        => (items[i].finish_date # NoDate <=> items[i].is_done = 1)

\* C4 witness: toggle_todo_status has just completed a todo that lies in the
\* trash; it is done and carries the action date.
C4_Witness ==
    /\ last.op = "toggle_todo_status"
    /\ \E i \in DOMAIN items :
          /\ items[i].type = "todo"
          /\ items[i].is_done = 1
          /\ items[i].finish_date = StoreDate
          /\ items[i].deleted_at # NoTime

\* the position of a well-formed date on the calendar line (order preserving)
DayNumber(d) == (d[1] * 12 + (d[2] - 1)) * 31 + d[3]

Live(i) == items[i].deleted_at = NoTime

\* the active-todo rule of the specification for item i and date D
ActiveOn(i, D) ==
    /\ items[i].type = "todo"
    /\ DayNumber(items[i].date) <= DayNumber(D)
    /\ \/ items[i].is_done = 0
       \/ /\ items[i].finish_date # NoDate
          /\ DayNumber(items[i].finish_date) >= DayNumber(D)

\* C5: get_items_for(D) returns exactly the non-trashed non-todo items dated
\* D and the non-trashed todos with date <= D and (not done or
\* finish_date >= D), each once; so an open todo is returned from its date
\* onward and a completed one from its date through its finish date only.
C5_ItemsForDate ==
    \A D \in QueryDates :
        LET rows == get_items_for_date(items, D)
            got == {rows[k][1] : k \in DOMAIN rows}
            want == {i \in DOMAIN items :
                        /\ Live(i)
                        /\ \/ items[i].type # "todo" /\ items[i].date = D
                           \/ ActiveOn(i, D)}
        IN /\ got = want
           /\ Len(rows) = Cardinality(want)
           /\ \A k \in DOMAIN rows : rows[k] = ItemRow(items, rows[k][1])
           /\ \A i \in DOMAIN items :
                 (Live(i) /\ items[i].type = "todo" /\ items[i].is_done = 0)
                 => (i \in got <=> DayNumber(items[i].date) <= DayNumber(D))
           /\ \A i \in DOMAIN items :
                 (Live(i) /\ items[i].type = "todo" /\ items[i].is_done = 1)
                 => (i \in got <=>
                       /\ DayNumber(items[i].date) <= DayNumber(D)
                       /\ DayNumber(D) <= DayNumber(items[i].finish_date))

\* C5 witness: a live todo of 2024-01-05 completed on 2024-01-20 beside a
\* trashed item dated 2024-01-05.
C5_Witness ==
    /\ \E i \in DOMAIN items :
          /\ Live(i) /\ items[i].type = "todo" /\ items[i].is_done = 1
          /\ items[i].date = <<2024, 1, 5>>
          /\ items[i].finish_date = <<2024, 1, 20>>
    /\ \E j \in DOMAIN items : ~Live(j) /\ items[j].date = <<2024, 1, 5>>

\* C6 (as claimed): marked_days(year, month) is the union of the days of the
\* month on which a non-todo item that is not in the trash is dated and the
\* days of the month inside some todo's active interval; a day whose only
\* item is a trashed non-todo item is not marked.
C6_MarkedDays ==
    \A ym \in QueryMonths :
        get_marked_days(items, ym[1], ym[2]) =
            {d \in 1..monthrange(ym[1], ym[2]) :
                \/ \E i \in DOMAIN items :
                      /\ items[i].type # "todo"
                      /\ Live(i)
                      /\ items[i].date = <<ym[1], ym[2], d>>
                \/ \E i \in DOMAIN items : ActiveOn(i, <<ym[1], ym[2], d>>)}

\* the store that holds row alone
Alone(row) == <<row>>

\* C7: month_stats(y, m)[d].todo is the number of non-trashed todos with
\* date <= d and (not done or finish_date >= d); a todo of 2024-01-05
\* finished on 2024-01-20 counts on January 5..20 only and marks days of
\* January 2024 and none of February 2024.
C7_MonthTodoCount ==
    /\ \A ym \in QueryMonths :
          LET stats == get_month_stats(items, ym[1], ym[2])
          IN \A d \in 1..monthrange(ym[1], ym[2]) :
                stats[d].todo =
                    Cardinality({i \in DOMAIN items :
                                    Live(i) /\ ActiveOn(i, <<ym[1], ym[2], d>>)})
    /\ \A i \in DOMAIN items :
          (/\ Live(i) /\ items[i].type = "todo" /\ items[i].is_done = 1
           /\ items[i].date = <<2024, 1, 5>>
           /\ items[i].finish_date = <<2024, 1, 20>>)
          => /\ \A ym \in QueryMonths :
                   LET stats == get_month_stats(Alone(items[i]), ym[1], ym[2])
                   IN \A d \in 1..monthrange(ym[1], ym[2]) :
                         stats[d].todo =
                             IF ym = <<2024, 1>> /\ d \in 5..20 THEN 1 ELSE 0
             /\ get_marked_days(Alone(items[i]), 2024, 1) = 5..20
             /\ get_marked_days(Alone(items[i]), 2024, 2) = {}

\* C7 witness: a live todo of 2024-01-05 finished on 2024-01-20 beside a
\* live open todo.
C7_Witness ==
    /\ \E i \in DOMAIN items :
          /\ Live(i) /\ items[i].type = "todo" /\ items[i].is_done = 1
          /\ items[i].date = <<2024, 1, 5>>
          /\ items[i].finish_date = <<2024, 1, 20>>
    /\ \E j \in DOMAIN items :
          Live(j) /\ items[j].type = "todo" /\ items[j].is_done = 0

\* C8 (as claimed): for every existing item and every list of names,
\* update_item_tags(id, names) completes and afterwards the names of
\* get_tags_for_item(id) are exactly the non-empty trimmed names of the list.
C8_TagsReplaced ==
    [][\A id \in DOMAIN items : \A tags_list \in StoreTagLists :
          (\E picks \in [1..Len(tags_list) -> {"red"}] :
               update_item_tags(id, tags_list, picks))
          => /\ ~last'.raised
             /\ TagNamesOf(tags', item_tags', id) = TrimmedNames(tags_list)
      ]_vars

\* C9: with a non-empty trash, recover_last() clears deleted_at of exactly
\* one trashed item, one with the greatest deleted_at, returns true and
\* changes no other item, no tag and no association.
C9_RecoverNewest ==
    [][(last'.op = "recover_last_deleted" /\ Trashed(items) # {})
          => /\ last'.rv = "True"
             /\ \E r \in Trashed(items) :
                   /\ items[r].deleted_at = NewestTime(items)
                   /\ items' = [items EXCEPT ![r].deleted_at = NoTime]
             /\ tags' = tags
             /\ item_tags' = item_tags
      ]_vars

\* C9 witness: recover_last() returned true and older trashed items are
\* still in the trash.
C9_Witness ==
    /\ last.op = "recover_last_deleted"
    /\ last.rv = "True"
    /\ Trashed(items) # {}
    /\ item_tags # {}

\* C10: recover_last() with no trashed item returns false and leaves items,
\* tags and associations unchanged.
C10_RecoverEmptyTrash ==
    [][(last'.op = "recover_last_deleted" /\ Trashed(items) = {})
          => /\ last'.rv = "False"
             /\ items' = items
             /\ tags' = tags
             /\ item_tags' = item_tags
      ]_vars

\* C10 witness: recover_last() returned false on a store that holds items,
\* a tag and an association.
C10_Witness ==
    /\ last.op = "recover_last_deleted"
    /\ last.rv = "False"
    /\ DOMAIN items # {}
    /\ item_tags # {}

\* C11 (as claimed): toggle_todo_status, update_item_content,
\* update_item_alias, update_diary_item, delete_item and soft_delete called
\* with an id that matches no item raise no error and leave items, tags and
\* associations unchanged.
C11_MissingIdNoop ==
    [][\A id \in 1..MaxId :
          (/\ id \notin DOMAIN items
           /\ \/ toggle_todo_status(id, StoreDate)
              \/ update_item_content(id, "c")
              \/ update_item_alias(id, "t")
              \/ update_diary_item(id, "t", "m", "c")
              \/ delete_item(id)
              \/ \E now \in Times : soft_delete_item(id, now))
          => /\ ~last'.raised
             /\ items' = items
             /\ tags' = tags
             /\ item_tags' = item_tags
      ]_vars

\* C12 (as claimed): update_item_tags(id, names) with an id that matches no
\* item leaves the store unchanged, and after every step every association
\* row refers to an item that exists.
C12_MissingIdTagsNoop ==
    [][/\ \A id \in 1..MaxId : \A tags_list \in StoreTagLists :
             (/\ id \notin DOMAIN items
              /\ \E picks \in [1..Len(tags_list) -> {"red"}] :
                    update_item_tags(id, tags_list, picks))
             => /\ items' = items
                /\ tags' = tags
                /\ item_tags' = item_tags
       /\ \A p \in item_tags' : p[1] \in DOMAIN items'
      ]_vars

\* the row after toggle_todo_status has run on it twice
ToggledTwice(row, d1, d2) == toggle_row(toggle_row(row, d1), d2)

\* C13 (as claimed): for every existing todo, done or not, and any two action
\* dates, two toggles return is_done and finish_date to the values they had
\* before the first.
C13_ToggleTwiceRestores ==
    \A i \in DOMAIN items : \A d1, d2 \in CalActionDates :
        items[i].type = "todo"
        => /\ ToggledTwice(items[i], d1, d2).is_done = items[i].is_done
           /\ ToggledTwice(items[i], d1, d2).finish_date = items[i].finish_date

\* C13 (amended): two toggles return is_done to its value and change no other
\* column but finish_date; a todo that was not done has finish_date null
\* again, a todo that was done carries the second action date.
C13_ToggleTwice ==
    \A i \in DOMAIN items : \A d1, d2 \in CalActionDates :
        items[i].type = "todo"
        => ToggledTwice(items[i], d1, d2) =
              [items[i] EXCEPT !.finish_date =
                   IF items[i].is_done = 0 THEN NoDate ELSE d2]

\* C13 witness: toggle_todo_status has completed a todo on 2024-01-20, a date
\* other than the second action date 2024-02-29.
C13_Witness ==
    /\ last.op = "toggle_todo_status"
    /\ \E i \in DOMAIN items :
          /\ items[i].type = "todo"
          /\ items[i].is_done = 1
          /\ items[i].finish_date = <<2024, 1, 20>>

\* C14 (as claimed): after any sequence of add_item and toggle_todo_status
\* calls, every item with a non-null finish_date has finish_date >= date.
C14_FinishNotBeforeDate ==
    \A i \in DOMAIN items :
        items[i].finish_date # NoDate
        => DateLE(items[i].date, items[i].finish_date)

\* the sum f[1] + ... + f[n]
RECURSIVE SumTo(_, _)
SumTo(f, n) == IF n = 0 THEN 0 ELSE f[n] + SumTo(f, n - 1)

\* the todos whose date is a calendar date of year Y
TodosCreatedIn(S, Y) ==
    {i \in S : /\ items[i].type = "todo"
               /\ fromisoformat_ok(items[i].date)
               /\ items[i].date[1] = Y}

\* the done todos whose finish_date is a calendar date of year Y
TodosDoneIn(S, Y) ==
    {i \in S : /\ items[i].type = "todo"
               /\ items[i].is_done = 1
               /\ fromisoformat_ok(items[i].finish_date)
               /\ items[i].finish_date[1] = Y}

LiveIds == {i \in DOMAIN items : Live(i)}

\* C15 (as claimed): for every year Y, the 12 entries of
\* year_stats(Y).todo_created sum to the number of todos whose date is in Y
\* and those of todo_done to the number of todos with is_done true and
\* finish_date in Y, whatever year they were created in.
C15_YearSums ==
    \A Y \in QueryYears :
        LET stats == get_year_stats(items, Y)
        IN /\ SumTo(stats.todo_created, 12) =
                 Cardinality(TodosCreatedIn(DOMAIN items, Y))
           /\ SumTo(stats.todo_done, 12) =
                 Cardinality(TodosDoneIn(DOMAIN items, Y))

\* C15 (amended): the entries of todo_created sum to the number of todos that
\* are not in the trash and whose date is in Y, those of todo_done to the
\* number of done todos that are not in the trash and whose finish_date is in
\* Y, whatever year they were created in.
C15_YearSumsLive ==
    \A Y \in QueryYears :
        LET stats == get_year_stats(items, Y)
        IN /\ SumTo(stats.todo_created, 12) =
                 Cardinality(TodosCreatedIn(LiveIds, Y))
           /\ SumTo(stats.todo_done, 12) =
                 Cardinality(TodosDoneIn(LiveIds, Y))

\* C15 witness: a live todo created in 2023 and done in 2024 beside a trashed
\* todo of 2024.
C15_Witness ==
    /\ \E i \in LiveIds :
          /\ items[i].type = "todo" /\ items[i].is_done = 1
          /\ items[i].date = <<2023, 12, 31>>
          /\ items[i].finish_date = <<2024, 2, 29>>
    /\ \E j \in DOMAIN items :
          ~Live(j) /\ items[j].type = "todo" /\ items[j].date = <<2024, 1, 5>>

\* the store without item i
Without(its, i) == Restrict(its, DOMAIN its \ {i})

\* todo i has dates the calendar views can read
ReadableTodo(i) ==
    /\ items[i].type = "todo"
    /\ fromisoformat_ok(items[i].date)
    /\ items[i].is_done = 1 => fromisoformat_ok(items[i].finish_date)

\* what todo i adds to year_stats(Y): 1 in todo_created in the month of its
\* date and nowhere else, 1 in todo_done in the month of its finish_date if
\* it is done and nowhere else
CountedOnceInYear(i, Y) ==
    LET with == get_year_stats(items, Y)
        without == get_year_stats(Without(items, i), Y)
    IN \A m \in 1..12 :
          /\ with.todo_created[m] - without.todo_created[m] =
                IF items[i].date[1] = Y /\ items[i].date[2] = m THEN 1 ELSE 0
          /\ with.todo_done[m] - without.todo_done[m] =
                IF /\ items[i].is_done = 1
                   /\ items[i].finish_date[1] = Y
                   /\ items[i].finish_date[2] = m
                THEN 1 ELSE 0

\* what todo i adds to month_stats(y, m): 1 on every day of its active
\* interval and nothing on the other days
CountedOnEveryActiveDay(i, y, m) ==
    LET with == get_month_stats(items, y, m)
        without == get_month_stats(Without(items, i), y, m)
    IN \A d \in 1..monthrange(y, m) :
          with[d].todo - without[d].todo =
              IF ActiveOn(i, <<y, m, d>>) THEN 1 ELSE 0

\* a toggle_todo_status step leaves todo_created of every year as it was
ToggleKeepsCreated ==
    last'.op = "toggle_todo_status"
    => \A Y \in QueryYears :
          get_year_stats(items', Y).todo_created =
              get_year_stats(items, Y).todo_created

\* C16 (as claimed): a todo contributes to year_stats exactly once in
\* todo_created, in the month of its date, and, if done, exactly once in
\* todo_done, in the month of its finish_date, however long it stayed open,
\* whereas month_stats counts it on every day of every month its active
\* interval overlaps; toggling a todo never changes todo_created.
C16_PointVersusInterval ==
    /\ [](\A i \in DOMAIN items :
             ReadableTodo(i)
             => /\ \A Y \in QueryYears : CountedOnceInYear(i, Y)
                /\ \A ym \in QueryMonths :
                      CountedOnEveryActiveDay(i, ym[1], ym[2]))
    /\ [][ToggleKeepsCreated]_vars

\* C16 (amended): the same for every todo that is not in the trash.
C16_PointVersusIntervalLive ==
    /\ [](\A i \in LiveIds :
             ReadableTodo(i)
             => /\ \A Y \in QueryYears : CountedOnceInYear(i, Y)
                /\ \A ym \in QueryMonths :
                      CountedOnEveryActiveDay(i, ym[1], ym[2]))
    /\ [][ToggleKeepsCreated]_vars

\* C16 witness: toggle_todo_status has just completed, on 2024-02-29, a live
\* todo of 2023-12-31, open over three months of two years.
C16_Witness ==
    /\ last.op = "toggle_todo_status"
    /\ \E i \in LiveIds :
          /\ items[i].type = "todo" /\ items[i].is_done = 1
          /\ items[i].date = <<2023, 12, 31>>
          /\ items[i].finish_date = <<2024, 2, 29>>

\* the non-trashed items that carry tag t
LiveHolders(t) == {i \in LiveIds : <<i, t>> \in item_tags}

\* C17: get_all_tags() returns one entry per tag with at least one
\* association to a non-trashed item, with count the number of non-trashed
\* items carrying the tag, ordered by count descending; a tag held only by
\* trashed items is not returned and no entry has count 0.
C17_AllTags ==
    /\ get_all_tags(items, tags, item_tags) # {}
    /\ \A rows \in get_all_tags(items, tags, item_tags) :
          /\ {rows[k][1] : k \in DOMAIN rows} =
                {t \in DOMAIN tags : LiveHolders(t) # {}}
          /\ \A j, k \in DOMAIN rows : rows[j][1] = rows[k][1] => j = k
          /\ \A k \in DOMAIN rows :
                /\ rows[k][2] = tags[rows[k][1]].name
                /\ rows[k][3] = Cardinality(LiveHolders(rows[k][1]))
                /\ rows[k][3] > 0
          /\ \A j, k \in DOMAIN rows : j < k => rows[j][3] >= rows[k][3]

\* C17 witness: one tag is carried by two live items, another by one live
\* item, and a third tag only by an item in the trash.
C17_Witness ==
    /\ \E t \in DOMAIN tags : Cardinality(LiveHolders(t)) = 2
    /\ \E t \in DOMAIN tags : Cardinality(LiveHolders(t)) = 1
    /\ \E t \in DOMAIN tags :
          /\ LiveHolders(t) = {}
          /\ \E i \in Trashed(items) : <<i, t>> \in item_tags

\* the tags that some association of its_tags names
TagsInUse(its_tags) == {p[2] : p \in its_tags}

\* C18: update_item_tags(id, []) on an existing item removes every
\* association of that item, leaves no tag row with zero associations, and
\* keeps the tags other items carry (and every other association).
C18_ClearTags ==
    [][\A id \in DOMAIN items :
          update_item_tags(id, <<>>, <<>>)
          => /\ ~last'.raised
             /\ \A p \in item_tags' : p[1] # id
             /\ item_tags' = {p \in item_tags : p[1] # id}
             /\ \A t \in DOMAIN tags' : t \in TagsInUse(item_tags')
             /\ \A t \in DOMAIN tags :
                   (\E p \in item_tags : p[2] = t /\ p[1] # id)
                   => t \in DOMAIN tags' /\ tags'[t] = tags[t]
             /\ items' = items
      ]_vars

\* C18 witness: update_item_tags has run; an existing item carries no tag,
\* a tag row was collected and another item still carries a tag.
C18_Witness ==
    /\ last.op = "update_item_tags"
    /\ ~last.raised
    /\ last.gc # {}
    /\ \E i \in DOMAIN items : \A p \in item_tags : p[1] # i
    /\ \E j \in DOMAIN items : \E p \in item_tags : p[1] = j

\* C19: delete_item(id) on an existing item, trashed or not, removes the item
\* and all its associations, removes exactly the tags left without an
\* association, and leaves every other item, every other association and
\* every tag still in use unchanged.
C19_DeleteItem ==
    [][\A id \in DOMAIN items :
          delete_item(id)
          => /\ items' = Without(items, id)
             /\ item_tags' = {p \in item_tags : p[1] # id}
             /\ DOMAIN tags \ DOMAIN tags' =
                   {t \in DOMAIN tags : t \notin TagsInUse(item_tags')}
             /\ \A t \in DOMAIN tags' : t \in DOMAIN tags /\ tags'[t] = tags[t]
             /\ ~last'.raised
      ]_vars

\* C19 witness: delete_item has run and collected a tag row; a trashed item
\* and a tagged item are still in the store.
C19_Witness ==
    /\ last.op = "delete_item"
    /\ last.gc # {}
    /\ Trashed(items) # {}
    /\ \E j \in DOMAIN items : \E p \in item_tags : p[1] = j

\* C20: after empty_trash() no item has a non-null deleted_at, no association
\* refers to a formerly trashed item, no tag without associations remains and
\* every non-trashed item and its associations are unchanged; a following
\* recover_last() returns false.
C20_EmptyTrash ==
    [][/\ last'.op = "empty_trash"
          => /\ Trashed(items') = {}
             /\ \A p \in item_tags' : p[1] \notin Trashed(items)
             /\ \A t \in DOMAIN tags' : t \in TagsInUse(item_tags')
             /\ \A i \in LiveIds :
                   /\ i \in DOMAIN items'
                   /\ items'[i] = items[i]
                   /\ {p \in item_tags' : p[1] = i} = {p \in item_tags : p[1] = i}
                   /\ get_tags_for_item(tags', item_tags', i) =
                         get_tags_for_item(tags, item_tags, i)
             /\ DOMAIN items' = LiveIds
       /\ (last.op = "empty_trash" /\ last'.op = "recover_last_deleted")
          => /\ last'.rv = "False"
             /\ items' = items
      ]_vars

\* C20 witness: empty_trash has run and collected a tag row; a tagged item
\* is still in the store.
C20_Witness ==
    /\ last.op = "empty_trash"
    /\ last.gc # {}
    /\ \E j \in DOMAIN items : \E p \in item_tags : p[1] = j

\* the step from the tables to the primed tables is what call f does when it
\* runs from its first statement to its last without interruption
RunsWhole(f) ==
    \/ f.op = "soft_delete_item" /\ soft_delete_item(f.item_id, f.now)
    \/ f.op = "delete_item" /\ delete_item(f.item_id)
    \/ f.op = "empty_trash" /\ empty_trash
    \/ f.op = "update_item_tags"
          /\ update_item_tags(f.item_id, f.tags_list, f.picks)

TablesUnchanged == UNCHANGED <<items, tags, item_tags>>

\* C21: if the process dies between any two statements of soft_delete,
\* delete_item, empty_trash or update_item_tags, the tables on disk are those
\* before the operation, and when the operation ends they are those before
\* or those after it; so no step leaves an association of an item it
\* removed, a tag without associations or more than 3 trashed items.
C21_CrashAtomic ==
    [][/\ \A c \in DOMAIN calls :
             /\ c \in DOMAIN calls' => TablesUnchanged
             /\ (c \notin DOMAIN calls' /\ last'.op = "crash") => TablesUnchanged
             /\ (c \notin DOMAIN calls' /\ last'.op # "crash")
                => RunsWhole(calls[c])
       /\ \A i \in DOMAIN items \ DOMAIN items' : \A p \in item_tags' : p[1] # i
       /\ \A t \in DOMAIN tags' : t \in TagsInUse(item_tags')
       /\ Cardinality(Trashed(items')) <= 3
      ]_vars

\* C21 witness: the process died in soft_delete_item after the DELETE of a
\* purged row; the row, a tag and three trashed items are on disk.
C21_Witness ==
    /\ last.op = "crash"
    /\ last.rv = "soft_delete_item"
    /\ last.purged # {}
    /\ last.purged \subseteq DOMAIN items
    /\ Cardinality(Trashed(items)) = 3
    /\ tags # <<>>

\* C22: for every (year, month) and every reachable store, every element of
\* marked_days(year, month) is an integer between 1 and the number of days of
\* the month.
C22_MarkedDaysInMonth ==
    \A ym \in QueryMonths :
        \A d \in get_marked_days(items, ym[1], ym[2]) :
            d \in 1..monthrange(ym[1], ym[2])

\* C22 witness: a note is stored under "2024-02-30" beside an open todo that
\* marks February 2024 through the 29th.
C22_Witness ==
    /\ \E i \in DOMAIN items :
          items[i].type = "note" /\ items[i].date = <<2024, 2, 30>>
    /\ 29 \in get_marked_days(items, 2024, 2)

\* the rows of a result list, as a set
RowSet(rows) == {rows[k] : k \in DOMAIN rows}

\* C23: add_item(type, content, date) creates exactly one new item with the
\* given type, content and date, is_done false, finish_date null and
\* deleted_at null, and changes no existing item, tag or association; for a
\* non-todo type get_items_for(date) then returns the items it returned
\* before and the new one.
C23_AddItem ==
    [][\A t \in CalTypes, d \in CalAddDates :
          add_item(t, "c", d, None, None, Today)
          => LET date == IF d = NoDate THEN Today ELSE d
                 before == get_items_for_date(items, date)
                 after == get_items_for_date(items', date)
             IN \E n \in DOMAIN items' \ DOMAIN items :
                   /\ DOMAIN items' = DOMAIN items \cup {n}
                   /\ items'[n].type = t
                   /\ items'[n].content = "c"
                   /\ items'[n].date = date
                   /\ items'[n].is_done = 0
                   /\ items'[n].finish_date = NoDate
                   /\ items'[n].deleted_at = NoTime
                   /\ \A i \in DOMAIN items : items'[i] = items[i]
                   /\ tags' = tags
                   /\ item_tags' = item_tags
                   /\ t # "todo"
                      => /\ RowSet(after) = RowSet(before)
                                               \cup {ItemRow(items', n)}
                         /\ Len(after) = Len(before) + 1
                         /\ ItemRow(items', n) \notin RowSet(before)
      ]_vars

\* C23 witness: add_item has stored a second note on the date of a live note.
C23_Witness ==
    /\ last.op = "add_item"
    /\ DOMAIN items = {1, 2}
    /\ items[2].type = "note"
    /\ items[1].type = "note"
    /\ items[1].date = items[2].date
    /\ items[1].deleted_at = NoTime

\* the number of positions of rows that hold r
Occurrences(rows, r) == Cardinality({k \in DOMAIN rows : rows[k] = r})

\* C24: get_all_entries() returns one row for every stored item, trashed
\* items included, ordered by date ascending; an item goes from it only when
\* it is hard-removed (delete_item, retention purge, empty_trash), never by
\* soft_delete alone.
C24_AllEntries ==
    /\ [](/\ get_all_entries(items) # {}
          /\ \A rows \in get_all_entries(items) :
                /\ Len(rows) = Cardinality(DOMAIN items)
                /\ \A i \in DOMAIN items :
                      Occurrences(rows, EntryRow(items, i)) =
                          Cardinality({j \in DOMAIN items :
                                          EntryRow(items, j) = EntryRow(items, i)})
                /\ \A j, k \in DOMAIN rows :
                      j < k => DateLE(rows[j][2], rows[k][2]))
    /\ [][\A i \in DOMAIN items \ DOMAIN items' :
             \/ last'.op \in {"delete_item", "empty_trash"}
             \/ last'.op = "soft_delete_item" /\ i \in last'.purged
         ]_vars

\* C24 witness: soft_delete has trashed an item; the store holds trashed and
\* live items on different dates.
C24_Witness ==
    /\ last.op = "soft_delete_item"
    /\ last.purged = {}
    /\ Trashed(items) # {}
    /\ \E i \in Trashed(items), j \in DOMAIN items :
          items[j].deleted_at = NoTime /\ DateLT(items[j].date, items[i].date)

\* C25: for every tag id, get_items_by_tag(tag_id) returns exactly the
\* non-trashed items associated with the tag, ordered by date ascending; an
\* item that is soft-deleted leaves the result and is in it again after
\* recover_last has recovered it.
C25_ItemsByTag ==
    /\ [](\A t \in TagIds :
             /\ get_items_by_tag(items, item_tags, t) # {}
             /\ \A rows \in get_items_by_tag(items, item_tags, t) :
                   /\ {rows[k][1] : k \in DOMAIN rows} =
                         {i \in LiveIds : <<i, t>> \in item_tags}
                   /\ \A j, k \in DOMAIN rows : rows[j][1] = rows[k][1] => j = k
                   /\ \A k \in DOMAIN rows :
                         rows[k] = TagItemRow(items, rows[k][1])
                   /\ \A j, k \in DOMAIN rows :
                         j < k => DateLE(rows[j][8], rows[k][8]))
    /\ [][\A t \in TagIds : \A i \in DOMAIN items :
             /\ (last'.op = "soft_delete_item" /\ <<i, t>> \in item_tags
                 /\ i \notin Trashed(items)
                 /\ (i \notin DOMAIN items' \/ i \in Trashed(items')))
                => \A rows \in get_items_by_tag(items', item_tags', t) :
                      \A k \in DOMAIN rows : rows[k][1] # i
             /\ (last'.op = "recover_last_deleted" /\ <<i, t>> \in item_tags
                 /\ i \in Trashed(items) /\ i \notin Trashed(items'))
                => \A rows \in get_items_by_tag(items', item_tags', t) :
                      \E k \in DOMAIN rows : rows[k][1] = i
         ]_vars

\* C25 witness: recover_last has brought a tagged item back beside a tagged
\* live item of a later date.
C25_Witness ==
    /\ last.op = "recover_last_deleted"
    /\ last.rv = "True"
    /\ \E t \in DOMAIN tags :
          \E rows \in get_items_by_tag(items, item_tags, t) :
             /\ Len(rows) = 2
             /\ DateLT(rows[1][8], rows[2][8])
             /\ rows[1][1] > rows[2][1]

MissingColumns(cols) == ColumnSet(MigratedColumns) \ ColumnSet(cols)

\* C26: opening the store on an item table that lacks any subset of is_done,
\* finish_date, alias, mood, deleted_at adds exactly the missing columns,
\* drops or renames none and leaves the stored rows unchanged; opening it
\* again, or opening a store whose schema is current, changes nothing.
C26_Migration ==
    [][(last'.op = "get_db" /\ columns # <<>>)
          => /\ ColumnSet(columns') = ColumnSet(columns) \cup MissingColumns(columns)
             /\ Len(columns') = Len(columns) + Cardinality(MissingColumns(columns))
             /\ SubSeq(columns', 1, Len(columns)) = columns
             /\ DOMAIN items' = DOMAIN items
             /\ \A i \in DOMAIN items : \A col \in DOMAIN items[i] :
                   items'[i][col] = items[i][col]
             /\ \A i \in DOMAIN items :
                   DOMAIN items'[i] = ColumnSet(columns') \ {"id"}
             /\ MissingColumns(columns) = {}
                => columns' = columns /\ items' = items
             /\ last.op = "get_db" => columns' = columns /\ items' = items
             /\ tags' = tags /\ item_tags' = item_tags
      ]_vars

\* C26 witness: the store was opened on a table that lacked columns and held
\* rows; the added columns follow the old ones.
C26_Witness ==
    /\ last.op = "get_db"
    /\ ColumnSet(columns) = ColumnSet(CreatedColumns)
    /\ columns # CreatedColumns
    /\ DOMAIN items = {1, 2}

\* C27: a tag's color comes from the palette when its row is created and
\* never changes while the row exists: update_item_tags naming an existing
\* tag keeps the tag's id and color, also when the rewritten item was the
\* tag's only holder and the same name is given again.
C27_ColorFixed ==
    [][/\ \A t \in DOMAIN tags' : tags'[t].color \in Palette
       /\ \A t \in DOMAIN tags \cap DOMAIN tags' : tags'[t] = tags[t]
       /\ \A id \in ColorItemIds, tags_list \in ColorTagLists :
             (\E picks \in [1..Len(tags_list) -> PickedColors] :
                  update_item_tags(id, tags_list, picks))
             => \A t \in DOMAIN tags :
                   tags[t].name \in TrimmedNames(tags_list)
                   => t \in DOMAIN tags' /\ tags'[t] = tags[t]
      ]_vars

\* C27 witness: update_item_tags has run on the only holder of a tag; the
\* store holds one tag of each picked color.
C27_Witness ==
    /\ last.op = "update_item_tags"
    /\ Cardinality({p[1] : p \in item_tags}) = 1
    /\ {tags[t].color : t \in DOMAIN tags} = PickedColors

\* C28: toggle_todo_status calls of two callers whose steps interleave take
\* effect one after the other, in the order of their commits: the row a call
\* commits is the toggle of the row that was there just before, so that two
\* calls leave the todo's done-state as it was.
C28_Serialisable ==
    [][\A c \in DOMAIN calls :
          (calls[c].op = "toggle_todo_status" /\ commit(c))
          => LET f == calls[c]
             IN items' = IF f.item_id \in DOMAIN items
                         THEN [items EXCEPT ![f.item_id] =
                                 toggle_row(items[f.item_id], f.action_date)]
                         ELSE items
      ]_vars

\* day d of the month carries something in month_stats
Counted(stats, d) ==
    \/ stats[d].diary > 0
    \/ stats[d].file > 0
    \/ stats[d].note > 0
    \/ stats[d].todo > 0

\* C29: for every month and every day d of it, d is in marked_days(y, m) if
\* and only if month_stats(y, m)[d] has a positive diary, file, note or todo
\* count, also after soft_delete and recover_last.
C29_MarkedIffCounted ==
    \A ym \in QueryMonths :
        LET stats == get_month_stats(items, ym[1], ym[2])
        IN \A d \in 1..monthrange(ym[1], ym[2]) :
              d \in get_marked_days(items, ym[1], ym[2]) <=> Counted(stats, d)

\* the number of rows of type t that get_items_for_date returns
RowsOfType(rows, t) == Cardinality({k \in DOMAIN rows : rows[k][2] = t})

\* C30: for every month and every day d of it the diary, file, note and todo
\* counts of month_stats(y, m)[d] are the numbers of items of these types
\* that get_items_for(the date of day d) returns.
C30_StatsCountItems ==
    \A ym \in QueryMonths :
        LET stats == get_month_stats(items, ym[1], ym[2])
        IN \A d \in 1..monthrange(ym[1], ym[2]) :
              LET rows == get_items_for_date(items, <<ym[1], ym[2], d>>)
              IN /\ stats[d].diary = RowsOfType(rows, "diary")
                 /\ stats[d].file = RowsOfType(rows, "file")
                 /\ stats[d].note = RowsOfType(rows, "note")
                 /\ stats[d].todo = RowsOfType(rows, "todo")

\* C30 witness: a file or diary item of January 5 is in the trash next to a
\* todo finished on January 20, which both queries count on January 5..20.
C30_Witness ==
    /\ \E i \in DOMAIN items :
          /\ items[i].type \in {"diary", "file"}
          /\ items[i].date = <<2024, 1, 5>>
          /\ ~Live(i)
    /\ \E i \in DOMAIN items :
          /\ Live(i)
          /\ items[i].type = "todo"
          /\ items[i].is_done = 1
          /\ items[i].finish_date = <<2024, 1, 20>>
    /\ get_month_stats(items, 2024, 1)[20].todo = 1
    /\ Len(get_items_for_date(items, <<2024, 1, 20>>)) = 1

\* C31: soft_delete(id) on an existing non-trashed item keeps the item with
\* every field but deleted_at and with its tag associations, and puts it at
\* the head of the trash, so that the recover_last() that follows, which
\* clears deleted_at of the head and changes nothing else, gives the item
\* back exactly as it was.
C31_DeleteThenRecover ==
    [][/\ \A id \in DOMAIN items :
             (/\ id \notin Trashed(items)
              /\ \E now \in ClockTimes : soft_delete_item(id, now))
             => /\ id \in DOMAIN items'
                /\ [items'[id] EXCEPT !.deleted_at = NoTime] = items[id]
                /\ {p \in item_tags' : p[1] = id} = {p \in item_tags : p[1] = id}
                /\ \A rows \in TrashOrder(items') : rows[1] = id
       /\ (recover_last_deleted /\ Trashed(items) # {})
             => /\ \E rows \in TrashOrder(items) :
                      items' = [items EXCEPT ![rows[1]].deleted_at = NoTime]
                /\ tags' = tags
                /\ item_tags' = item_tags
      ]_vars

\* C32: the trash is last-in-first-out.  While it holds fewer than 3 items,
\* soft_delete of a non-trashed item puts the item in front of the items
\* trashed before it and keeps their order; recover_last() on a non-empty
\* trash returns true and takes the front item out, keeping the order of
\* the rest, and returns false on an empty trash.  So after soft_delete of
\* a, b, c from an empty trash three calls restore c, b, a and a fourth
\* returns false.
C32_LastInFirstOut ==
    [][/\ \A id \in DOMAIN items :
             (/\ id \notin Trashed(items)
              /\ Cardinality(Trashed(items)) < TrashKeep
              /\ \E now \in ClockTimes : soft_delete_item(id, now))
             => \A rows \in TrashOrder(items') :
                   /\ rows[1] = id
                   /\ Tail(rows) \in TrashOrder(items)
       /\ recover_last_deleted
             => IF Trashed(items) = {}
                THEN last'.rv = "False" /\ items' = items
                ELSE /\ last'.rv = "True"
                     /\ \E rows \in TrashOrder(items) :
                           /\ items' = [items EXCEPT ![rows[1]].deleted_at = NoTime]
                           /\ Tail(rows) \in TrashOrder(items')
      ]_vars

\* C33: right after add_item has created an item, whatever ran before,
\* get_tags_for_item on the new id returns no tags and no association row
\* refers to that id.
C33_NewItemUntagged ==
    [][add_item("todo", "c", StoreDate, "t", "m", StoreDate)
          => LET id == Max(DOMAIN items')
             IN /\ id \notin DOMAIN items
                /\ get_tags_for_item(tags', item_tags', id) = {}
                /\ \A p \in item_tags' : p[1] # id
      ]_vars

\* C34: purged is terminal per id.  After a step that hard-removes items
\* (delete_item, the retention purge of soft_delete, empty_trash) the id
\* that add_item assigns next is none of the removed ids, add_item assigns
\* an id no item holds, and recover_last brings no removed item back.
C34_PurgedIsTerminal ==
    [][/\ NewRowId(items') \notin DOMAIN items \ DOMAIN items'
       /\ add_item("todo", "c", StoreDate, "t", "m", StoreDate)
             => DOMAIN items' \ DOMAIN items = {NewRowId(items)}
       /\ recover_last_deleted => DOMAIN items' = DOMAIN items
      ]_vars

\* the step changes at most the columns `own` of item id: no item comes or
\* goes, every other item, every tag and every association is as before
OnlyFields(id, own) ==
    /\ DOMAIN items' = DOMAIN items
    /\ \A j \in DOMAIN items :
          \A f \in DOMAIN items[j] :
              (j # id \/ f \notin own) => items'[j][f] = items[j][f]
    /\ tags' = tags
    /\ item_tags' = item_tags

\* C35: toggle_todo_status changes only is_done and finish_date of the
\* addressed item (to 1 and action_date when not done, to 0 and null when
\* done), update_item_content only content, update_item_alias only alias,
\* update_diary_item only alias, mood and content; nothing else in the store
\* changes, no step changes the type or the date of an item, and an update
\* repeated with the same arguments changes nothing further.
C35_OwnFieldsOnly ==
    [][/\ \A id \in EditItemIds :
             /\ toggle_todo_status(id, <<2024, 1, 20>>)
                   => /\ OnlyFields(id, {"is_done", "finish_date"})
                      /\ id \in DOMAIN items
                            => IF items[id].is_done = 0
                               THEN /\ items'[id].is_done = 1
                                    /\ items'[id].finish_date = <<2024, 1, 20>>
                               ELSE /\ items'[id].is_done = 0
                                    /\ items'[id].finish_date = NoDate
             /\ \A t \in Texts :
                   /\ update_item_content(id, t)
                         => /\ OnlyFields(id, {"content"})
                            /\ id \in DOMAIN items
                                  => /\ items'[id].content = t
                                     /\ items[id].content = t => items' = items
                   /\ update_item_alias(id, t)
                         => /\ OnlyFields(id, {"alias"})
                            /\ id \in DOMAIN items
                                  => /\ items'[id].alias = t
                                     /\ items[id].alias = t => items' = items
                   /\ \A m \in Moods :
                         update_diary_item(id, t, m, t)
                         => /\ OnlyFields(id, {"alias", "mood", "content"})
                            /\ id \in DOMAIN items
                                  => /\ items'[id].alias = t
                                     /\ items'[id].mood = m
                                     /\ items'[id].content = t
                                     /\ (/\ items[id].alias = t
                                         /\ items[id].mood = m
                                         /\ items[id].content = t)
                                        => items' = items
       /\ \A i \in DOMAIN items \cap DOMAIN items' :
             /\ items'[i].type = items[i].type
             /\ items'[i].date = items[i].date
      ]_vars

\* C35 witness: update_item_alias has run on a todo that is done, tagged and
\* has content and alias that differ, next to a diary with a mood.
C35_Witness ==
    /\ last.op = "update_item_alias"
    /\ \E i \in DOMAIN items :
          /\ items[i].type = "todo"
          /\ items[i].is_done = 1
          /\ items[i].alias \in Texts
          /\ items[i].alias # items[i].content
          /\ \E p \in item_tags : p[1] = i
    /\ \E i \in DOMAIN items :
          items[i].type = "diary" /\ items[i].mood \in Moods

\* the items whose date is not a calendar date
Malformed == {i \in DOMAIN items : ~fromisoformat_ok(items[i].date)}

\* C36: with items whose date is not a valid calendar date in the store,
\* marked_days, month_stats and year_stats return their results, and these
\* are the results for the store without the malformed rows put together
\* with what the malformed rows give alone: what every other item
\* contributes is the same as if the malformed rows were absent.
C36_MalformedSkipped ==
    LET rest == Restrict(items, DOMAIN items \ Malformed)
        only == Restrict(items, Malformed)
    IN /\ \A ym \in QueryMonths :
             LET all_s == get_month_stats(items, ym[1], ym[2])
                 rest_s == get_month_stats(rest, ym[1], ym[2])
                 only_s == get_month_stats(only, ym[1], ym[2])
             IN /\ get_marked_days(items, ym[1], ym[2]) =
                       get_marked_days(rest, ym[1], ym[2])
                          \cup get_marked_days(only, ym[1], ym[2])
                /\ DOMAIN all_s = 1..monthrange(ym[1], ym[2])
                /\ \A d \in DOMAIN all_s :
                      /\ all_s[d].diary = rest_s[d].diary + only_s[d].diary
                      /\ all_s[d].file = rest_s[d].file + only_s[d].file
                      /\ all_s[d].note = rest_s[d].note + only_s[d].note
                      /\ all_s[d].todo = rest_s[d].todo + only_s[d].todo
                      /\ all_s[d].diary_mood = rest_s[d].diary_mood
       /\ \A Y \in QueryYears :
             LET all_y == get_year_stats(items, Y)
                 rest_y == get_year_stats(rest, Y)
                 only_y == get_year_stats(only, Y)
             IN /\ \A m \in 1..12 :
                      /\ all_y.diary[m] = rest_y.diary[m] + only_y.diary[m]
                      /\ all_y.note[m] = rest_y.note[m] + only_y.note[m]
                      /\ all_y.file[m] = rest_y.file[m] + only_y.file[m]
                      /\ all_y.todo_created[m] =
                            rest_y.todo_created[m] + only_y.todo_created[m]
                      /\ all_y.todo_done[m] =
                            rest_y.todo_done[m] + only_y.todo_done[m]
                /\ all_y.total_todos = rest_y.total_todos + only_y.total_todos
                /\ all_y.finished_todos =
                      rest_y.finished_todos + only_y.finished_todos

\* C36 witness: a todo dated 2024-02-30 has the lower id and an open todo of
\* 2023-12-31, which marks every day of February 2024, the higher one.
C36_Witness ==
    /\ \E i \in Malformed, j \in DOMAIN items \ Malformed :
          /\ i < j
          /\ items[i].type = "todo" /\ Live(i)
          /\ items[j].type = "todo" /\ Live(j) /\ items[j].is_done = 0
    /\ get_marked_days(items, 2024, 2) = 1..29
    /\ get_year_stats(items, 2023).total_todos = 1

\* the diary items dated D that are not in the trash
DiariesOn(D) ==
    {i \in DOMAIN items : /\ items[i].type = "diary"
                          /\ Live(i)
                          /\ items[i].date = D}

\* those of them that have a mood
MoodyOn(D) == {i \in DiariesOn(D) : items[i].mood \notin {None, ""}}

\* C37 (as claimed): month_stats(y, m)[d] carries a diary_mood if and only if
\* at least one non-trashed diary item is dated that day, and the value is
\* the mood of the diary item of that day written last.
C37_MoodIffDiary ==
    \A ym \in QueryMonths :
        LET stats == get_month_stats(items, ym[1], ym[2])
        IN \A d \in 1..monthrange(ym[1], ym[2]) :
              LET on == DiariesOn(<<ym[1], ym[2], d>>)
              IN /\ stats[d].diary_mood # None <=> on # {}
                 /\ on # {} => stats[d].diary_mood = items[Max(on)].mood

\* C37 (amended): month_stats(y, m)[d] carries a diary_mood if and only if
\* at least one non-trashed diary item with a non-empty mood is dated that
\* day, and the value is the mood of the one of these created last (the one
\* with the greatest id).
C37_MoodIffMoodyDiary ==
    \A ym \in QueryMonths :
        LET stats == get_month_stats(items, ym[1], ym[2])
        IN \A d \in 1..monthrange(ym[1], ym[2]) :
              LET on == MoodyOn(<<ym[1], ym[2], d>>)
              IN /\ stats[d].diary_mood # None <=> on # {}
                 /\ on # {} => stats[d].diary_mood = items[Max(on)].mood

\* C37 witness: two diaries with different moods share January 5, the older
\* one was given its mood by the last update_diary_item, and month_stats
\* shows the mood of the younger one.
C37_Witness ==
    /\ last.op = "update_diary_item"
    /\ MoodyOn(<<2024, 1, 5>>) = {1, 2}
    /\ items[1].alias = "t"
    /\ items[2].alias = None
    /\ items[1].mood # items[2].mood
    /\ get_month_stats(items, 2024, 1)[5].diary_mood = items[2].mood

====
